---- MODULE Spec2Model ----
(***************************************************************************)
(* A model of the agent orchestration engine of cc_agent:                  *)
(*   - the protocol codec of call_kimi_model (reply text -> outcome),      *)
(*   - TaskTool.call and the step loop query,                              *)
(*   - the rate limiter and the retrying invoker of call_kimi_model,       *)
(*   - normalize_messages.                                                 *)
(* Texts are sequences of tokens; times are tenths of a second.            *)
(***************************************************************************)
EXTENDS Integers, Sequences, FiniteSets, TLC

VARIABLES
    \* ---- protocol codec (call_kimi_model, lines 776-844)
    content,            \* the reply text of the completion service, a token sequence
    outcome,            \* what call_kimi_model returned for it
    cpc,                \* "reply" before decoding, "decoded" after
    \* ---- TaskTool.call and query (task_tools.py lines 338-451, 544-739)
    pc,                 \* "setup", "loop" (line 581), "invoke" (587), "handle" (594), "done"
    subagent_type,      \* parsed_input.subagent_type or "general-purpose"
    safe_mode,          \* parsed_input.safe_mode
    max_steps,          \* parsed_input.max_steps
    has_target,         \* the prompt names a path that ends in fix-git
    tools,              \* the capability list of the run, by name
    step,               \* query's step
    completed_analysis, \* query's completed_analysis
    current_messages,   \* query's transcript
    executed_tools,     \* query's executed_tools, a set of keys
    normalized_msgs,    \* query's normalized_msgs, as call_kimi_model leaves it
    model_response,     \* query's model_response
    exit,               \* how query ended
    clk,                \* the wall clock read by time.time()
    executions,         \* history: the capability executions of the run
    rounds,             \* history: what each round did
    norm_snapshot,      \* history: what line 585 computed in this round
    msgs_snapshot,      \* history: the transcript line 585 was given
    call_messages,      \* current_messages of TaskTool.call (the messages surfaced)
    log,                \* the log file, as overwrite_log wrote it last
    events,             \* history: the events TaskTool.call yielded
    \* ---- rate limiter (base.py lines 86-113) and retrying invoker
    \*      (task_tools.py lines 760-904), for the runs that share them
    now,                \* time.time(), in tenths of a second
    request_timestamps, \* API_CONFIG["request_timestamps"]
    tpc,                \* per run: "idle", "slot_wait" (line 104), "backoff" (860, 878), "off"
    wake,               \* per run: when its asyncio.sleep ends
    retry_count,        \* per run: retry_count of call_kimi_model
    last_error,         \* per run: the exception of the last failed attempt
    result,             \* per run: what the last call_kimi_model returned
    calls,              \* per run: the invocations started
    call_budget,        \* the invocations a run makes
    fails_left,         \* failed attempts the service may still answer with
    attempts,           \* history: the network attempts of the last 60 seconds
    sent,               \* history, per run: the requests it sent to the service
    call_attempts,      \* history, per run: attempts of the current invocation
    only_rate_limited,  \* history, per run: every attempt of the invocation was rate-limited
    \* ---- cancellation of a run (an asyncio task) during an invocation
    cancel_at,          \* per run: when its cancellation was requested, -1 before
    abandoned_at,       \* per run: when CancelledError was raised in it, -1 before
    cancelled_in,       \* per run: what the run was waiting for at the request
    \* ---- the shell capability (BashTool.execute, code_tools.py lines 330-378)
    shell_pc,           \* "idle", "communicate" (line 350), "off"
    shell_now,          \* the time, in seconds
    processes,          \* the processes started (line 344), whether each still runs
    shell_results       \* history: the result texts returned to the loop

codecVars == <<content, outcome, cpc>>

loopVars == <<pc, subagent_type, safe_mode, max_steps, has_target, tools, step,
              completed_analysis, current_messages, executed_tools,
              normalized_msgs, model_response, exit, clk, executions, rounds,
              norm_snapshot, msgs_snapshot, call_messages, log, events>>

rateVars == <<now, request_timestamps, tpc, wake, retry_count, last_error, result,
              calls, call_budget, fails_left, attempts, sent, call_attempts, only_rate_limited>>

cancelVars == <<cancel_at, abandoned_at, cancelled_in>>

shellVars == <<shell_pc, shell_now, processes, shell_results>>

vars == <<codecVars, loopVars, rateVars, cancelVars, shellVars>>

(***************************************************************************)
(* TEXT.  A text is a sequence of tokens [t, doc, part, tag]:              *)
(*   t = "B"     the substring <FunctionCallBegin>                         *)
(*   t = "E"     the substring <FunctionCallEnd>                           *)
(*   t = "ws"    white space (a newline)                                   *)
(*   t = "w"     a short piece of prose, t = "W" a long one                *)
(*   t = "bad"   a piece of broken JSON such as {"name": "Glo              *)
(*   t = "kv"    a line of the form  pattern: *.py                         *)
(*   t = "open"  the tag <tag>,  t = "close" the tag </tag>                *)
(*   t = "json"  the complete JSON text of the document doc                *)
(*   t = "frag"  the part-th piece of the JSON text of doc, which is cut   *)
(*               wherever one of its strings holds a delimiter             *)
(***************************************************************************)

\* A JSON document: kind "call" is {"name": name, "parameters": {parameters}},
\* "strparams" is {"name": name, "parameters": "text"}, "mapping" is the plain
\* object {parameters}, "array" is [1]. parameters is the sequence of
\* <<key, value>> pairs in the order of the text.
NullDoc == [kind |-> "none", name |-> "", parameters |-> <<>>]

Tok(t) == [t |-> t, doc |-> NullDoc, part |-> 0, tag |-> ""]
TagTok(t, n) == [t |-> t, doc |-> NullDoc, part |-> 0, tag |-> n]
DocTok(t, d, p) == [t |-> t, doc |-> d, part |-> p, tag |-> ""]

BeginTok == Tok("B")
EndTok == Tok("E")

\* Strings that hold a delimiter of the protocol.
EndStr == "a<FunctionCallEnd>b"
BeginStr == "a<FunctionCallBegin>b"

CallDoc(n, p) == [kind |-> "call", name |-> n, parameters |-> p]
MappingDoc(p) == [kind |-> "mapping", name |-> "", parameters |-> p]
ArrayDoc == [kind |-> "array", name |-> "", parameters |-> <<>>]
StrParamsDoc(n) == [kind |-> "strparams", name |-> n, parameters |-> <<>>]

\* The delimiter tokens that occur inside the strings of a pair sequence,
\* in text order.
RECURSIVE DelimsIn(_)
DelimsIn(p) ==
    IF p = <<>> THEN <<>>
    ELSE LET v == Head(p)[2]
             here == IF v = EndStr THEN <<EndTok>>
                     ELSE IF v = BeginStr THEN <<BeginTok>>
                     ELSE <<>>
         IN here \o DelimsIn(Tail(p))

\* The pieces frag(1), delim, frag(2), delim, ... of a document's text.
RECURSIVE Pieces(_, _, _)
Pieces(d, delims, k) ==
    IF delims = <<>> THEN <<DocTok("frag", d, k)>>
    ELSE <<DocTok("frag", d, k), Head(delims)>> \o Pieces(d, Tail(delims), k + 1)

\* json.dumps: the text of a document, as tokens.
Dumps(d) ==
    IF DelimsIn(d.parameters) = <<>> THEN <<DocTok("json", d, 0)>>
    ELSE Pieces(d, DelimsIn(d.parameters), 1)

\* json.loads: the document whose text is exactly seq, or a JSONDecodeError.
\* Prose, broken JSON, a cut-off piece of a document and a document followed
\* by anything else are no JSON text.
JsonLoads(seq) ==
    IF seq # <<>> /\ seq[1].t \in {"json", "frag"} /\ Dumps(seq[1].doc) = seq
    THEN [ok |-> TRUE, doc |-> seq[1].doc]
    ELSE [ok |-> FALSE, doc |-> NullDoc]

\* str.strip()
RECURSIVE LStrip(_)
LStrip(seq) ==
    IF seq # <<>> /\ Head(seq).t = "ws" THEN LStrip(Tail(seq)) ELSE seq

RECURSIVE RStrip(_)
RStrip(seq) ==
    IF seq # <<>> /\ seq[Len(seq)].t = "ws"
    THEN RStrip(SubSeq(seq, 1, Len(seq) - 1)) ELSE seq

Strip(seq) == RStrip(LStrip(seq))

\* `sub in text` and text.index(sub) for the two delimiters.
Contains(text, t) == \E i \in 1..Len(text) : text[i].t = t
IndexOf(text, t) == CHOOSE i \in 1..Len(text) :
    /\ text[i].t = t
    /\ \A j \in 1..(i - 1) : text[j].t # t

\* text[start:end] of Python for 1-based token positions: the tokens from
\* position from up to, not including, position to (empty when to <= from).
Slice(text, from, to) == SubSeq(text, from, to - 1)

\* The value of a decoded call's "parameters": a mapping with its pairs, or
\* something that is no mapping.
Mapping(p) == [mapping |-> TRUE, pairs |-> p]
NotMapping == [mapping |-> FALSE, pairs |-> <<>>]

\* The Python value of a parsed document when it is used as the parameters
\* of a tag-form call.
ValueOf(d) ==
    CASE d.kind = "mapping" -> Mapping(d.parameters)
      [] d.kind = "call" -> Mapping(<<<<"name", d.name>>, <<"parameters", "<object>">>>>)
      [] d.kind = "strparams" -> Mapping(<<<<"name", d.name>>, <<"parameters", "<text>">>>>)
      [] OTHER -> NotMapping

\* ---- the outcomes of call_kimi_model
ToolUse(n, v) == [type |-> "tool_use", name |-> n, input |-> v, text |-> <<>>, err |-> ""]
TextReply(text) == [type |-> "text", name |-> "", input |-> NotMapping, text |-> text, err |-> ""]
ErrorReply(e, text) == [type |-> "error", name |-> "", input |-> NotMapping, text |-> text, err |-> e]
NoOutcome == [type |-> "none", name |-> "", input |-> NotMapping, text |-> <<>>, err |-> ""]

\* re.search(r'<(\w+Tool)>(.*?)</\1>', content, re.DOTALL): the leftmost open
\* tag that has a close tag of its name after it, and the nearest such close tag.
TagMatches(text) == {i \in 1..Len(text) :
    /\ text[i].t = "open"
    /\ \E j \in (i + 1)..Len(text) : text[j].t = "close" /\ text[j].tag = text[i].tag}
TagOpen(text) == CHOOSE i \in TagMatches(text) : \A k \in TagMatches(text) : i <= k
TagClose(text) == CHOOSE j \in (TagOpen(text) + 1)..Len(text) :
    /\ text[j].t = "close" /\ text[j].tag = text[TagOpen(text)].tag
    /\ \A k \in (TagOpen(text) + 1)..(j - 1) :
          ~(text[k].t = "close" /\ text[k].tag = text[TagOpen(text)].tag)

\* The key: value extraction of lines 804-809. A line is what stands between
\* two newlines; a line with a colon gives one entry of params.
HasColon(tok) == tok.t \in {"kv", "json", "frag", "bad"}

RECURSIVE FirstLine(_)
FirstLine(seq) ==
    IF seq = <<>> \/ Head(seq).t = "ws" THEN <<>>
    ELSE <<Head(seq)>> \o FirstLine(Tail(seq))

RestLines(seq) ==
    LET n == Len(FirstLine(seq)) IN
    IF n >= Len(seq) THEN <<>> ELSE SubSeq(seq, n + 2, Len(seq))

LineKey(line) == IF line = <<Tok("kv")>> THEN "pattern" ELSE "?"
LineValue(line) == IF line = <<Tok("kv")>> THEN "*.py" ELSE "?"

\* params[key] = value on a dict kept as a pair sequence.
SetItem(p, k, v) ==
    IF \E i \in 1..Len(p) : p[i][1] = k
    THEN [i \in 1..Len(p) |-> IF p[i][1] = k THEN <<k, v>> ELSE p[i]]
    ELSE Append(p, <<k, v>>)

RECURSIVE KeyValueParams(_, _)
KeyValueParams(seq, params) ==
    IF seq = <<>> THEN params
    ELSE LET line == FirstLine(seq)
             next == IF \E i \in 1..Len(line) : HasColon(line[i])
                     THEN SetItem(params, LineKey(line), LineValue(line))
                     ELSE params
         IN KeyValueParams(RestLines(seq), next)

\* Lines 789-813: the tag form <XTool>...</XTool>, tried when the delimiters
\* gave nothing. The call it finds, or NoOutcome.
DecodeTag(text) ==
    IF TagMatches(text) = {} THEN NoOutcome
    ELSE LET body == Strip(Slice(text, TagOpen(text) + 1, TagClose(text)))
             parsed == JsonLoads(body)
         IN IF parsed.ok
            THEN ToolUse(text[TagOpen(text)].tag, ValueOf(parsed.doc))
            ELSE ToolUse(text[TagOpen(text)].tag, Mapping(KeyValueParams(body, <<>>)))

\* Lines 816-837 for the text between the delimiters.
DecodeDelimited(func_call_str) ==
    LET parsed == JsonLoads(func_call_str) IN
    IF ~parsed.ok THEN ErrorReply("parse", func_call_str)
    ELSE CASE parsed.doc.kind = "call" ->
                  ToolUse(parsed.doc.name, Mapping(parsed.doc.parameters))
           [] parsed.doc.kind = "strparams" ->
                  ToolUse(parsed.doc.name, NotMapping)
           \* func_call["name"] raises KeyError or TypeError, caught at line 890
           [] OTHER -> ErrorReply("call_failed", <<>>)

\* Lines 782-787: the text between the first <FunctionCallBegin> and the
\* first <FunctionCallEnd>, stripped; empty when a delimiter is missing.
Delimited(text) ==
    IF Contains(text, "B") /\ Contains(text, "E")
    THEN Strip(Slice(text, IndexOf(text, "B") + 1, IndexOf(text, "E")))
    ELSE <<>>

\* Lines 776-844: decoding of a reply.
Decode(text) ==
    IF Delimited(text) # <<>> THEN DecodeDelimited(Delimited(text))
    ELSE IF DecodeTag(text).type = "tool_use" THEN DecodeTag(text)
    ELSE TextReply(text)

(***************************************************************************)
(* The replies the codec is given.                                         *)
(***************************************************************************)
MaxReplyLen == 3

GlobDoc == CallDoc("GlobTool", <<<<"pattern", "*.py">>>>)
WriteEndDoc == CallDoc("FileWriteTool", <<<<"content", EndStr>>>>)

\* The tokens replies are made of.
CodecTokens ==
    {BeginTok, EndTok, Tok("ws"), Tok("w"), Tok("bad"), Tok("kv"),
     TagTok("open", "GlobTool"), TagTok("close", "GlobTool"),
     DocTok("json", GlobDoc, 0), DocTok("json", MappingDoc(<<<<"pattern", "x">>>>), 0),
     DocTok("json", ArrayDoc, 0), DocTok("json", StrParamsDoc("GlobTool"), 0),
     DocTok("frag", WriteEndDoc, 1), DocTok("frag", WriteEndDoc, 2)}

SeqsUpTo(S, n) == UNION {[1..k -> S] : k \in 0..n}

\* The names and argument mappings of the canonical calls.
CodecNames == {"GlobTool", "FileWriteTool", "BashTool"}
CodecParams ==
    {<<>>,
     <<<<"pattern", "*.py">>>>,
     <<<<"command", "git status">>, <<"timeout", "5">>>>,
     <<<<"content", EndStr>>>>,
     <<<<"content", BeginStr>>>>,
     <<<<"path", "/f.py">>, <<"content", EndStr>>>>}

\* <FunctionCallBegin>{"name":N,"parameters":P}<FunctionCallEnd>
Canonical(n, p) == <<BeginTok>> \o Dumps(CallDoc(n, p)) \o <<EndTok>>

CanonicalReplies == {Canonical(n, p) : n \in CodecNames, p \in CodecParams}

\* Replies that hold the delimiter pair and a tool tag.
TagForm == <<TagTok("open", "GlobTool"),
             DocTok("json", MappingDoc(<<<<"pattern", "x">>>>), 0),
             TagTok("close", "GlobTool")>>
BothFormReplies ==
    {<<BeginTok, EndTok>> \o TagForm,
     <<BeginTok, Tok("ws"), EndTok>> \o TagForm,
     <<BeginTok, DocTok("json", GlobDoc, 0), EndTok>> \o TagForm,
     TagForm \o <<BeginTok, DocTok("json", GlobDoc, 0), EndTok>>,
     <<BeginTok, Tok("bad"), EndTok>> \o TagForm}

(***************************************************************************)
(* CAPABILITY REGISTRY                                                      *)
(***************************************************************************)
\* get_tools: the catalog, in its order.
get_tools ==
    <<"GrepTool", "FileReadTool", "GlobTool", "BashTool", "FileEditTool",
      "FileWriteTool", "ThinkTool", "TodoWriteTool", "URLFetcherTool",
      "NotebookEditTool", "WebSearchTool">>

\* Tool.is_read_only of each capability.
is_read_only(n) ==
    n \in {"GrepTool", "FileReadTool", "GlobTool", "ThinkTool",
           "URLFetcherTool", "WebSearchTool"}

Range(seq) == {seq[i] : i \in 1..Len(seq)}
Min(a, b) == IF a < b THEN a ELSE b

\* A read-only list that keeps every capability.
get_read_only_tools_all == get_tools
\* get_read_only_tools, lines 484-485.
get_read_only_tools == SelectSeq(get_tools, LAMBDA n : is_read_only(n))

get_task_tools(safe) ==
    LET all_tools == IF ~safe THEN get_tools ELSE get_read_only_tools
    IN SelectSeq(all_tools, LAMBDA n : n # "TaskTool")

\* get_agent_by_type: the persona's "tools" entry; star is the string "*".
AgentTypes == {"general-purpose", "code-reviewer", "researcher", "data-scientist"}

get_agent_by_type(t) ==
    CASE t = "general-purpose" -> [found |-> TRUE, star |-> TRUE, list |-> <<>>]
      [] t = "code-reviewer" -> [found |-> TRUE, star |-> FALSE, list |->
            <<"GrepTool", "FileReadTool", "GlobTool", "BashTool", "FileEditTool",
              "FileWriteTool", "ThinkTool", "TodoWriteTool">>]
      [] t = "researcher" -> [found |-> TRUE, star |-> FALSE, list |->
            <<"GrepTool", "FileReadTool", "GlobTool", "URLFetcherTool",
              "ThinkTool", "WebSearchTool">>]
      [] t = "data-scientist" -> [found |-> TRUE, star |-> FALSE, list |->
            <<"NotebookEditTool", "FileReadTool", "BashTool", "ThinkTool",
              "TodoWriteTool">>]
      [] OTHER -> [found |-> FALSE, star |-> FALSE, list |-> <<>>]

\* Lines 382-385 of TaskTool.call: the persona's allow-list.
\* (`if tool_filter` is false for an empty list, which then filters nothing.)
FilterByPersona(ts, cfg) ==
    IF (cfg.star \/ cfg.list # <<>>) /\ ~cfg.star
    THEN SelectSeq(ts, LAMBDA n : n \in Range(cfg.list))
    ELSE ts

\* Lines 380-385: the capability list of a run.
RunTools(safe, cfg) == FilterByPersona(get_task_tools(safe), cfg)

(***************************************************************************)
(* MESSAGES AND NORMALIZATION (base.py)                                    *)
(***************************************************************************)
Note(kind) == <<TagTok("note", kind)>>

NoBlock == [type |-> "none", text |-> <<>>, name |-> "", input |-> NotMapping,
            output |-> <<>>]
TextBlock(text) == [type |-> "text", text |-> text, name |-> "",
                    input |-> NotMapping, output |-> <<>>]
ToolUseBlock(n, v, out) == [type |-> "tool_use", text |-> <<>>, name |-> n,
                            input |-> v, output |-> out]

\* A block that keeps only the text of the reply.
ContentBlockOff(r) ==
    IF r.type = "tool_use" THEN ToolUseBlock(r.name, r.input, <<>>)
    ELSE TextBlock(r.text)
\* The block of an outcome of call_kimi_model (its "content").
ContentBlock(r) ==
    IF r.type = "tool_use" THEN ToolUseBlock(r.name, r.input, <<>>)
    ELSE IF r.type = "error" THEN TextBlock(Note(r.err) \o r.text)
    ELSE TextBlock(r.text)

\* create_user_message, create_assistant_message and the system message of
\* line 575; ts is time.time().
create_user_message(text, ts) ==
    [type |-> "user", content |-> text, blocks |-> <<>>, timestamp |-> ts]
create_assistant_message(blocks, ts) ==
    [type |-> "assistant", content |-> <<>>, blocks |-> blocks, timestamp |-> ts]
SystemMessage(text, ts) ==
    [type |-> "system", content |-> text, blocks |-> <<>>, timestamp |-> ts]

\* The JSON document json.dumps(tool_content[0]) is given at line 191.
BlockDoc(b) ==
    IF b.input.mapping THEN CallDoc(b.name, b.input.pairs) ELSE StrParamsDoc(b.name)

\* "\n".join of the non-empty texts.
RECURSIVE JoinLines(_)
JoinLines(texts) ==
    IF texts = <<>> THEN <<>>
    ELSE IF Len(texts) = 1 THEN Head(texts)
    ELSE Head(texts) \o <<Tok("ws")>> \o JoinLines(Tail(texts))

BlockTexts(blocks) ==
    LET kept == SelectSeq(blocks, LAMBDA b : b.text # <<>>)
    IN [i \in 1..Len(kept) |-> kept[i].text]

\* An entry of the normalized list. ref is 0 for a dict made by
\* normalize_messages, and i when the entry is the very dict of transcript
\* message i (so that writing to it writes to the transcript).
Entry(role, text, ref) == [role |-> role, content |-> text, ref |-> ref]

\* Lines 172-198: the entry of one user or assistant message, <<>> for others.
NormalizeOne(msg) ==
    IF msg.type = "user" THEN <<Entry("user", msg.content, 0)>>
    ELSE IF msg.type = "assistant"
    THEN LET tool_blocks == SelectSeq(msg.blocks, LAMBDA b : b.type = "tool_use")
         IN IF tool_blocks # <<>>
            THEN <<Entry("assistant",
                         <<BeginTok>> \o Dumps(BlockDoc(tool_blocks[1])) \o <<EndTok>>, 0)>>
            ELSE <<Entry("assistant", JoinLines(BlockTexts(msg.blocks)), 0)>>
    ELSE <<>>

RECURSIVE NormalizeRest(_)
NormalizeRest(messages) ==
    IF messages = <<>> THEN <<>>
    ELSE NormalizeOne(Head(messages)) \o NormalizeRest(Tail(messages))

\* A system entry that hands out the transcript's own dict.
SystemEntryShared(messages) ==
    LET idx == {i \in 1..Len(messages) : messages[i].type = "system"}
    IN IF idx # {}
       THEN LET i == CHOOSE i \in idx : \A j \in idx : i <= j
            IN <<Entry("system", messages[i].content, i)>>
       ELSE <<>>

\* Lines 165-170: the system entry, a new dict with the first system
\* message's content.
SystemEntry(messages) ==
    LET system_msgs == SelectSeq(messages, LAMBDA m : m.type = "system")
    IN IF system_msgs # <<>> THEN <<Entry("system", system_msgs[1].content, 0)>>
       ELSE <<>>

normalize_messages(messages) == SystemEntry(messages) \o NormalizeRest(messages)

\* ---- what TaskTool.call does with the messages query yields (lines 397-424)

\* overwrite_log: one line per message, with the message's type, its
\* "content" key (assistant messages have none: "No content") and its time.
LogLine(msg) ==
    [type |-> msg.type,
     content |-> IF msg.type = "assistant" THEN Note("No content") ELSE msg.content,
     timestamp |-> msg.timestamp]
overwrite_log(messages) == [i \in 1..Len(messages) |-> LogLine(messages[i])]

NoMessage == [type |-> "none", content |-> <<>>, blocks |-> <<>>, timestamp |-> 0]

\* A progress event (lines 353-358, 372-377, 419-424). Besides its content it
\* keeps, as history, what the log file held and what the transcript of query
\* would be in the log when the event was yielded; in_loop tells the events
\* of the step loop from the two of the set-up.
ProgressEvent(msg, lg, tr, in_loop) ==
    [type |-> "progress", content |-> msg, log |-> lg, transcript |-> tr,
     in_loop |-> in_loop, data |-> <<>>, statistics |-> FALSE,
     tool_uses |-> 0, steps_executed |-> 0]

\* A result event (line 365, without statistics, and lines 440-451).
ResultEvent(data, statistics, tool_uses, steps_executed) ==
    [type |-> "result", content |-> NoMessage, log |-> <<>>, transcript |-> <<>>,
     in_loop |-> FALSE, data |-> data, statistics |-> statistics,
     tool_uses |-> tool_uses, steps_executed |-> steps_executed]

\* The messages query yields while it appends `appended` to the transcript
\* `base`, each with the transcript at the time of its yield.
Yielded(base, appended) ==
    [i \in 1..Len(appended) |->
        [msg |-> appended[i], transcript |-> base \o SubSeq(appended, 1, i)]]

SurfacedMessages(ys) == [i \in 1..Len(ys) |-> ys[i].msg]

\* Lines 409-424, for every message query yields: it is appended to the
\* caller's list, the log is rewritten from that list, the event is yielded.
ProgressEvents(ys, have) ==
    [i \in 1..Len(ys) |->
        ProgressEvent(ys[i].msg,
                      overwrite_log(have \o SubSeq(SurfacedMessages(ys), 1, i)),
                      overwrite_log(ys[i].transcript), TRUE)]

\* Lines 428-438: the statistics and the final text of the result event.
RECURSIVE CountToolUses(_)
CountToolUses(messages) ==
    IF messages = <<>> THEN 0
    ELSE (IF Head(messages).type = "assistant"
          THEN Len(SelectSeq(Head(messages).blocks, LAMBDA c : c.type = "tool_use"))
          ELSE 0) + CountToolUses(Tail(messages))

\* A result that keeps no text.
TextResultsOff(messages) == <<>>
TextResults(messages) ==
    IF messages # <<>> /\ messages[Len(messages)].type = "assistant"
    THEN SelectSeq(messages[Len(messages)].blocks, LAMBDA c : c.type = "text")
    ELSE <<>>

(***************************************************************************)
(* THE STEP LOOP (query) AND ITS CALLER (TaskTool.call)                    *)
(***************************************************************************)
MaxSteps == 3
FinalAnswerThreshold == 50

TargetPath == "/w/fix-git"

\* len() of a text, in characters.
TokLen(tok) ==
    CASE tok.t = "B" -> 19 [] tok.t = "E" -> 17 [] tok.t = "ws" -> 1
      [] tok.t = "w" -> 5 [] tok.t = "W" -> 60 [] tok.t = "bad" -> 10
      [] tok.t = "kv" -> 14 [] tok.t = "json" -> 40 [] tok.t = "frag" -> 20
      [] OTHER -> 10

RECURSIVE TextLen(_)
TextLen(text) == IF text = <<>> THEN 0 ELSE TokLen(Head(text)) + TextLen(Tail(text))

\* The keys of argument mappings, in the order sort_keys=True puts them.
ParamKeys == <<"?", "command", "content", "name", "parameters", "path",
               "pattern", "timeout">>

RECURSIVE SortByKeys(_, _)
SortByKeys(pairs, keys) ==
    IF keys = <<>> THEN <<>>
    ELSE SelectSeq(pairs, LAMBDA kv : kv[1] = Head(keys)) \o SortByKeys(pairs, Tail(keys))

\* json.dumps(input, sort_keys=True)
SortedDumps(v) == IF v.mapping THEN SortByKeys(v.pairs, ParamKeys) ELSE <<<<"", "<text>">>>>

\* json.dumps(input) without sort_keys
UnsortedDumps(v) == IF v.mapping THEN v.pairs ELSE <<<<"", "<text>">>>>

\* Line 655: tool_key.
ToolKey(n, v) == [name |-> n, args |-> SortedDumps(v)]

\* Line 652: the key "BashTool:cd <target_path>", which is no key of line 655.
CdKey == [name |-> "BashTool", args |-> <<<<"", "cd " \o TargetPath>>>>]

HasKey(v, k) == v.mapping /\ \E i \in 1..Len(v.pairs) : v.pairs[i][1] = k
Get(v, k) == LET i == CHOOSE i \in 1..Len(v.pairs) : v.pairs[i][1] = k IN v.pairs[i][2]

\* Strings with "git" in them (lower-cased).
GitStrings == {"git status", "cd /w/fix-git && pwd", TargetPath}

\* Line 614: "git" in tool_use.name.lower() or "git" in str(tool_use.input).lower()
MentionsGit(n, v) ==
    v.mapping /\ \E i \in 1..Len(v.pairs) : v.pairs[i][2] \in GitStrings

\* The file system the capabilities see.
IsDir(path) == path = "/dir"
Exists(path) == path \in {"/dir", "/f.py"}

Accept == [result |-> TRUE, message |-> ""]
AcceptWith(m) == [result |-> TRUE, message |-> m]
Reject(m) == [result |-> FALSE, message |-> m]

\* validate_input of FileReadTool, GlobTool and BashTool; the replies of the
\* model name no other capability of the catalog.
ValidateInput(n, v) ==
    CASE n = "FileReadTool" ->
            IF ~HasKey(v, "path") THEN Reject("Missing required parameter")
            ELSE IF ~Exists(Get(v, "path")) THEN Reject("File not found")
            ELSE IF IsDir(Get(v, "path")) THEN Reject("Not a file")
            ELSE Accept
      [] n = "GlobTool" ->
            IF ~HasKey(v, "pattern") THEN Reject("Missing required parameter")
            ELSE Accept
      [] n = "BashTool" ->
            IF ~HasKey(v, "command") THEN Reject("Missing required parameter")
            ELSE IF Get(v, "command") = "sudo ls" THEN Reject("Potentially dangerous command rejected")
            ELSE IF Get(v, "command") = "python x.py" THEN AcceptWith("Warning: Consider using 'python3'")
            ELSE Accept
      [] OTHER -> Accept

\* The text a capability execution returns.
ResultText(n, v) == <<DocTok("result", CallDoc(n, v.pairs), 0)>>

Execution(n, v, by, validated) ==
    [name |-> n, input |-> v, by |-> by, step |-> step, validated |-> validated]

\* The replies the completion service gives in a round.
LoopCall(n, p) == Canonical(n, p)
LoopReplies ==
    {<<Tok("W")>>, <<Tok("w")>>,
     <<BeginTok, Tok("bad"), EndTok>>,
     <<BeginTok, EndTok>>,
     LoopCall("GlobTool", <<<<"pattern", "*.py">>>>),
     LoopCall("BashTool", <<<<"command", "git status">>>>),
     LoopCall("BashTool", <<<<"command", "ls">>, <<"timeout", "5">>>>),
     LoopCall("BashTool", <<<<"timeout", "5">>, <<"command", "ls">>>>),
     LoopCall("BashTool", <<<<"command", "python x.py">>>>),
     LoopCall("FileReadTool", <<<<"path", "/dir">>>>),
     LoopCall("FileReadTool", <<>>),
     LoopCall("NoSuchTool", <<>>)}

\* The outcomes of call_kimi_model that are not decoded from a reply:
\* retries exhausted (lines 862-888) and any other exception (line 890).
InvokerFailures == {ErrorReply("exhausted", <<>>), ErrorReply("call_failed", <<>>)}

\* The state of the codec variables while another part of the program runs.
CodecOff == content = <<>> /\ outcome = NoOutcome /\ cpc = "off"

\* The runs that share the rate limiter.
Runs == {"r1", "r2"}

\* The state of the limiter variables while no invocation is looked at.
RateOff ==
    /\ now = 0
    /\ request_timestamps = <<>>
    /\ tpc = [r \in Runs |-> "off"]
    /\ wake = [r \in Runs |-> 0]
    /\ retry_count = [r \in Runs |-> 0]
    /\ last_error = [r \in Runs |-> ""]
    /\ result = [r \in Runs |-> ""]
    /\ calls = [r \in Runs |-> 0]
    /\ call_budget = 0
    /\ fails_left = 0
    /\ attempts = <<>>
    /\ sent = [r \in Runs |-> 0]
    /\ call_attempts = [r \in Runs |-> 0]
    /\ only_rate_limited = [r \in Runs |-> TRUE]

\* No cancellation was requested.
CancelOff ==
    /\ cancel_at = [r \in Runs |-> -1]
    /\ abandoned_at = [r \in Runs |-> -1]
    /\ cancelled_in = [r \in Runs |-> ""]

\* The state of the shell variables while no shell capability is looked at.
ShellOff ==
    /\ shell_pc = "off"
    /\ shell_now = 0
    /\ processes = <<>>
    /\ shell_results = <<>>

\* The state of the run variables while no run is looked at.
LoopOff ==
    /\ pc = "off"
    /\ subagent_type = "general-purpose"
    /\ safe_mode = FALSE
    /\ max_steps = 1
    /\ has_target = FALSE
    /\ tools = <<>>
    /\ step = 0
    /\ completed_analysis = FALSE
    /\ current_messages = <<>>
    /\ executed_tools = {}
    /\ normalized_msgs = <<>>
    /\ model_response = NoOutcome
    /\ exit = ""
    /\ clk = 0
    /\ executions = <<>>
    /\ rounds = <<>>
    /\ norm_snapshot = <<>>
    /\ msgs_snapshot = <<>>
    /\ call_messages = <<>>
    /\ log = <<>>
    /\ events = <<>>

Init ==
    /\ CodecOff
    /\ RateOff
    /\ CancelOff
    /\ ShellOff
    /\ pc = "setup"
    /\ subagent_type \in AgentTypes \cup {"unknown"}
    /\ safe_mode \in BOOLEAN
    /\ max_steps \in 1..MaxSteps
    /\ has_target \in BOOLEAN
    /\ tools = <<>>
    /\ step = 0
    /\ completed_analysis = FALSE
    /\ current_messages = <<>>
    /\ executed_tools = {}
    /\ normalized_msgs = <<>>
    /\ model_response = NoOutcome
    /\ exit = ""
    /\ clk = 0
    /\ executions = <<>>
    /\ rounds = <<>>
    /\ norm_snapshot = <<>>
    /\ msgs_snapshot = <<>>
    /\ call_messages = <<>>
    /\ log = <<>>
    /\ events = <<>>

\* Lines 352, 371 and 387 of TaskTool.call: its first three messages.
ProgressMsg == create_assistant_message(<<TextBlock(Note("loading"))>>, clk)
ModelMsg == create_assistant_message(<<TextBlock(Note("model"))>>, clk + 1)
UserMessage ==
    create_user_message(Note(IF has_target THEN "prompt fix-git" ELSE "prompt"), clk + 2)

\* TaskTool.call lines 343-396 and query lines 554-579: the persona, the
\* capability list, the first messages, the system message put in front.
Setup ==
    /\ pc = "setup"
    /\ LET cfg == get_agent_by_type(subagent_type) IN
       IF ~cfg.found
       THEN /\ pc' = "done"
            /\ exit' = "agent_not_found"
            /\ clk' = clk + 1
            /\ call_messages' = <<ProgressMsg>>
            /\ events' = <<ProgressEvent(ProgressMsg, <<>>, <<>>, FALSE),
                           ResultEvent(<<TextBlock(Note("agent not found"))>>,
                                       FALSE, 0, 0)>>
            /\ UNCHANGED <<tools, current_messages>>
       ELSE /\ tools' = RunTools(safe_mode, cfg)
            /\ current_messages' =
                 <<SystemMessage(Note("system"), clk + 3),
                   ProgressMsg, ModelMsg, UserMessage>>
            /\ call_messages' = <<ProgressMsg, ModelMsg, UserMessage>>
            /\ events' = <<ProgressEvent(ProgressMsg, <<>>, <<>>, FALSE),
                           ProgressEvent(ModelMsg, <<>>, <<>>, FALSE)>>
            /\ clk' = clk + 4
            /\ pc' = "loop"
            /\ exit' = ""
    /\ UNCHANGED <<subagent_type, safe_mode, max_steps, has_target, step,
                   completed_analysis, executed_tools, normalized_msgs,
                   model_response, executions, rounds, norm_snapshot,
                   msgs_snapshot, log, codecVars, rateVars, cancelVars, shellVars>>

\* A loop condition that lets one round too many begin.
LoopGuardOff == step <= max_steps /\ ~completed_analysis
\* Line 581, the loop condition.
LoopGuard == step < max_steps /\ ~completed_analysis

\* Lines 581-585: a round begins, the transcript is normalized.
BeginRound ==
    /\ pc = "loop"
    /\ LoopGuard
    /\ step' = step + 1
    /\ normalized_msgs' = normalize_messages(current_messages)
    /\ norm_snapshot' = normalize_messages(current_messages)
    /\ msgs_snapshot' = current_messages
    /\ pc' = "invoke"
    /\ UNCHANGED <<subagent_type, safe_mode, max_steps, has_target, tools,
                   completed_analysis, current_messages, executed_tools,
                   model_response, exit, clk, executions, rounds,
                   call_messages, log, events, codecVars, rateVars, cancelVars, shellVars>>

\* Line 581 false: the loop ends.
LoopExit ==
    /\ pc = "loop"
    /\ ~LoopGuard
    /\ pc' = "done"
    /\ exit' = "loop_exit"
    /\ UNCHANGED <<subagent_type, safe_mode, max_steps, has_target, tools, step,
                   completed_analysis, current_messages, executed_tools,
                   normalized_msgs, model_response, clk, executions, rounds,
                   norm_snapshot, msgs_snapshot, call_messages, log, events,
                   codecVars, rateVars, cancelVars, shellVars>>

\* call_kimi_model lines 754-758: the manifest is appended to the content of
\* the system entry of the list it was given.
Manifest == Note("manifest")

WithManifest(entries) ==
    [i \in 1..Len(entries) |->
        IF i = (CHOOSE k \in 1..Len(entries) :
                    /\ entries[k].role = "system"
                    /\ \A j \in 1..(k - 1) : entries[j].role # "system")
        THEN [entries[i] EXCEPT !.content = @ \o Manifest]
        ELSE entries[i]]

HasSystem(entries) == \E k \in 1..Len(entries) : entries[k].role = "system"

\* What that write does to the transcript: nothing, unless the entry is a
\* dict of the transcript.
TranscriptAfterManifest(entries, messages) ==
    [i \in 1..Len(messages) |->
        IF \E k \in 1..Len(entries) : entries[k].role = "system" /\ entries[k].ref = i
        THEN [messages[i] EXCEPT !.content = @ \o Manifest]
        ELSE messages[i]]

\* Line 587: call_kimi_model returns, with a decoded reply or a failure.
Invoke ==
    /\ pc = "invoke"
    /\ normalized_msgs' = IF HasSystem(normalized_msgs)
                          THEN WithManifest(normalized_msgs) ELSE normalized_msgs
    /\ current_messages' = TranscriptAfterManifest(normalized_msgs, current_messages)
    /\ \/ \E reply \in LoopReplies : model_response' = Decode(reply)
       \/ model_response' \in InvokerFailures
    /\ clk' = clk + 1
    /\ pc' = "handle"
    /\ UNCHANGED <<subagent_type, safe_mode, max_steps, has_target, tools, step,
                   completed_analysis, executed_tools, exit, executions, rounds,
                   norm_snapshot, msgs_snapshot, call_messages, log, events,
                   codecVars, rateVars, cancelVars, shellVars>>

\* ---- lines 594-739, the handling of model_response
tool_use == model_response
assistant_msg == create_assistant_message(<<ContentBlock(model_response)>>, clk)
TextMsg(kind) == create_assistant_message(<<TextBlock(Note(kind))>>, clk)
ToolMsg(n, v, out) == create_assistant_message(<<ToolUseBlock(n, v, out)>>, clk)

\* A reply put in front of the transcript.
MsgsReplyInFront == <<assistant_msg>> \o current_messages
\* Line 599: the reply is appended.
MsgsReply == Append(current_messages, assistant_msg)

\* Lines 614-621. has_cd reads t.name of the members of executed_tools, which
\* are strings: with a member to look at, the generator raises AttributeError.
GitCall == MentionsGit(tool_use.name, tool_use.input)
GitFault == GitCall /\ executed_tools # {}
\* Line 624: target_path and not has_cd
CdShim == GitCall /\ executed_tools = {} /\ has_target
\* A shim that takes BashTool from the catalog.
BashPresentInCatalog == "BashTool" \in Range(get_tools)
\* Lines 635-636 and 691-692: BashTool is looked up in the list of the run.
BashPresent == "BashTool" \in Range(tools)
CdInput == Mapping(<<<<"command", "cd /w/fix-git && pwd">>>>)
LsInput == Mapping(<<<<"command", "ls -la /dir">>>>)

\* Lines 625-652: what the change-directory shim leaves behind.
GitMsgs ==
    IF ~CdShim THEN <<>>
    ELSE IF ~BashPresent THEN <<TextMsg("cd first")>>
    ELSE <<TextMsg("cd first"), ToolMsg("BashTool", CdInput, ResultText("BashTool", CdInput))>>
MsgsGit == MsgsReply \o GitMsgs
ExecutedGit == IF CdShim /\ BashPresent THEN executed_tools \cup {CdKey} ELSE executed_tools
ExecutionsGit ==
    IF CdShim /\ BashPresent
    THEN Append(executions, Execution("BashTool", CdInput, "cd_shim", FALSE))
    ELSE executions

tool_key == ToolKey(tool_use.name, tool_use.input)
tool_key_unsorted == [name |-> tool_use.name, args |-> UnsortedDumps(tool_use.input)]
Redundant == tool_key \in ExecutedGit
ToolFound == tool_use.name \in Range(tools)
validation == ValidateInput(tool_use.name, tool_use.input)
\* Line 679
NotAFileCase ==
    ~validation.result /\ validation.message = "Not a file" /\ tool_use.name = "FileReadTool"

Round(kind) == [step |-> step, kind |-> kind, type |-> model_response.type,
                name |-> tool_use.name, input |-> tool_use.input,
                text |-> model_response.text]

\* Lines 409-424 for the messages ys that query yields in a round.
Surface(ys) ==
    /\ call_messages' = call_messages \o SurfacedMessages(ys)
    /\ log' = overwrite_log(call_messages \o SurfacedMessages(ys))
    /\ events' = events \o ProgressEvents(ys, call_messages)

\* The messages a round appends and yields up to the handling of the call:
\* the reply (lines 598-600) and those of the change-directory shim.
YieldedWith(more) == Yielded(current_messages, <<assistant_msg>> \o GitMsgs \o more)

HandleFrame == UNCHANGED <<subagent_type, safe_mode, max_steps, has_target, tools,
                           step, normalized_msgs, model_response, norm_snapshot,
                           msgs_snapshot, codecVars, rateVars, cancelVars, shellVars>>

\* A branch that goes on to the next request without passing line 582.
ContinueSameStep == pc' = "invoke" /\ exit' = exit
\* continue (lines 662, 709) and the end of the loop body (line 739): back
\* to the loop condition of line 581.
Continue == pc' = "loop" /\ exit' = exit
Return(how) == pc' = "done" /\ exit' = how

\* Lines 594-596: an error outcome is surfaced and the run ends.
HandleError ==
    /\ pc = "handle" /\ model_response.type = "error"
    /\ Return("error_return")
    /\ rounds' = Append(rounds, Round("error"))
    /\ Surface(<<[msg |-> assistant_msg, transcript |-> current_messages]>>)
    /\ clk' = clk + 1
    /\ UNCHANGED <<completed_analysis, current_messages, executed_tools, executions>>
    /\ HandleFrame

\* Lines 598-607: a text reply is appended and query returns, whatever its length.
HandleText ==
    /\ pc = "handle" /\ model_response.type = "text"
    /\ current_messages' = MsgsReply
    /\ completed_analysis' = (TextLen(Strip(model_response.text)) > FinalAnswerThreshold)
    /\ Return("text_return")
    /\ rounds' = Append(rounds, Round("text"))
    /\ Surface(Yielded(current_messages, <<assistant_msg>>))
    /\ clk' = clk + 1
    /\ UNCHANGED <<executed_tools, executions>>
    /\ HandleFrame

\* Lines 614-621: the AttributeError leaves query.
HandleGitFault ==
    /\ pc = "handle" /\ model_response.type = "tool_use"
    /\ GitFault
    /\ current_messages' = MsgsReply
    /\ Return("raised")
    /\ rounds' = Append(rounds, Round("fault"))
    /\ Surface(Yielded(current_messages, <<assistant_msg>>))
    /\ clk' = clk + 1
    /\ UNCHANGED <<completed_analysis, executed_tools, executions>>
    /\ HandleFrame

\* Lines 655-662: the call was made before; a notice, and the next round.
HandleRedundant ==
    /\ pc = "handle" /\ model_response.type = "tool_use"
    /\ ~GitFault /\ Redundant
    /\ current_messages' = Append(MsgsGit, TextMsg("skip"))
    /\ executed_tools' = ExecutedGit
    /\ executions' = ExecutionsGit
    /\ Continue
    /\ rounds' = Append(rounds, Round("skip"))
    /\ Surface(YieldedWith(<<TextMsg("skip")>>))
    /\ clk' = clk + 1
    /\ UNCHANGED completed_analysis
    /\ HandleFrame

\* Lines 666-673: no capability of that name.
HandleNotFound ==
    /\ pc = "handle" /\ model_response.type = "tool_use"
    /\ ~GitFault /\ ~Redundant /\ ~ToolFound
    /\ current_messages' = Append(MsgsGit, TextMsg("not found"))
    /\ executed_tools' = ExecutedGit \cup {tool_key}
    /\ executions' = ExecutionsGit
    /\ Return("notfound_return")
    /\ rounds' = Append(rounds, Round("notfound"))
    /\ Surface(YieldedWith(<<TextMsg("not found")>>))
    /\ clk' = clk + 1
    /\ UNCHANGED completed_analysis
    /\ HandleFrame

\* Lines 710-716: the arguments are rejected and query returns.
HandleRejected ==
    /\ pc = "handle" /\ model_response.type = "tool_use"
    /\ ~GitFault /\ ~Redundant /\ ToolFound
    /\ ~validation.result /\ ~NotAFileCase
    /\ current_messages' = Append(MsgsGit, TextMsg("validation failed"))
    /\ executed_tools' = ExecutedGit \cup {tool_key}
    /\ executions' = ExecutionsGit
    /\ Return("invalid_return")
    /\ rounds' = Append(rounds, Round("invalid"))
    /\ Surface(YieldedWith(<<TextMsg("validation failed")>>))
    /\ clk' = clk + 1
    /\ UNCHANGED completed_analysis
    /\ HandleFrame

\* Lines 679-709 with BashTool in the list: the directory is listed instead.
HandleDirShim ==
    /\ pc = "handle" /\ model_response.type = "tool_use"
    /\ ~GitFault /\ ~Redundant /\ ToolFound
    /\ NotAFileCase /\ BashPresent
    /\ current_messages' = MsgsGit \o
         <<TextMsg("not a file"), ToolMsg("BashTool", LsInput, ResultText("BashTool", LsInput))>>
    /\ executed_tools' = ExecutedGit \cup {tool_key}
    /\ executions' = Append(ExecutionsGit, Execution("BashTool", LsInput, "ls_shim", FALSE))
    /\ Continue
    /\ rounds' = Append(rounds, Round("shim"))
    /\ Surface(YieldedWith(<<TextMsg("not a file"),
                            ToolMsg("BashTool", LsInput, ResultText("BashTool", LsInput))>>))
    /\ clk' = clk + 1
    /\ UNCHANGED completed_analysis
    /\ HandleFrame

\* Lines 717-739: the capability is executed and its result appended as a user
\* message. Line 726 is also reached from line 692 when BashTool is not in
\* the list (no branch leaves the round there).
HandleExecute ==
    /\ pc = "handle" /\ model_response.type = "tool_use"
    /\ ~GitFault /\ ~Redundant /\ ToolFound
    /\ validation.result \/ (NotAFileCase /\ ~BashPresent)
    /\ current_messages' =
         MsgsGit
         \o (IF NotAFileCase THEN <<TextMsg("not a file")>> ELSE <<>>)
         \o (IF validation.result /\ validation.message # ""
             THEN <<TextMsg("warning")>> ELSE <<>>)
         \o <<create_user_message(
                 Note("returned") \o ResultText(tool_use.name, tool_use.input), clk)>>
    /\ executed_tools' = ExecutedGit \cup {tool_key}
    /\ executions' = Append(ExecutionsGit,
         Execution(tool_use.name, tool_use.input, "model", validation.result))
    /\ Continue
    /\ rounds' = Append(rounds, Round("executed"))
    /\ Surface(YieldedWith(
                  (IF NotAFileCase THEN <<TextMsg("not a file")>> ELSE <<>>)
                  \o (IF validation.result /\ validation.message # ""
                      THEN <<TextMsg("warning")>> ELSE <<>>))
               \o <<[msg |-> ToolMsg(tool_use.name, tool_use.input,
                                     ResultText(tool_use.name, tool_use.input)),
                     transcript |-> current_messages']>>)
    /\ clk' = clk + 1
    /\ UNCHANGED completed_analysis
    /\ HandleFrame

\* Lines 426-451: query is exhausted, the result event is yielded. (The
\* AttributeError of lines 616-621 leaves TaskTool.call as well.)
EmitResult ==
    /\ pc = "done" /\ exit \notin {"agent_not_found", "raised"}
    /\ events' = Append(events,
         ResultEvent(TextResults(call_messages), TRUE, CountToolUses(call_messages),
                     Min(Len(call_messages) \div 2, max_steps)))
    /\ pc' = "end"
    /\ UNCHANGED <<subagent_type, safe_mode, max_steps, has_target, tools, step,
                   completed_analysis, current_messages, executed_tools,
                   normalized_msgs, model_response, exit, clk, executions, rounds,
                   norm_snapshot, msgs_snapshot, call_messages, log,
                   codecVars, rateVars, cancelVars, shellVars>>

Next ==
    \/ Setup
    \/ BeginRound
    \/ LoopExit
    \/ Invoke
    \/ HandleError
    \/ HandleText
    \/ HandleGitFault
    \/ HandleRedundant
    \/ HandleNotFound
    \/ HandleRejected
    \/ HandleDirShim
    \/ HandleExecute
    \/ EmitResult

Spec == Init /\ [][Next]_vars

(***************************************************************************)
(* CODEC SPECIFICATION: a reply arrives, call_kimi_model decodes it.       *)
(***************************************************************************)
CodecInit ==
    /\ content \in SeqsUpTo(CodecTokens, MaxReplyLen) \cup CanonicalReplies
                  \cup BothFormReplies
    /\ outcome = NoOutcome
    /\ cpc = "reply"
    /\ LoopOff
    /\ RateOff
    /\ CancelOff
    /\ ShellOff

DecodeReply ==
    /\ cpc = "reply"
    /\ outcome' = Decode(content)
    /\ cpc' = "decoded"
    /\ UNCHANGED <<content, loopVars, rateVars, cancelVars, shellVars>>

CodecNext == DecodeReply

SpecCodec == CodecInit /\ [][CodecNext]_vars

\* The text between the first <FunctionCallBegin> and the first
\* <FunctionCallEnd> of a reply that holds both.
Payload(text) == Slice(text, IndexOf(text, "B") + 1, IndexOf(text, "E"))

HasBothDelimiters(text) == Contains(text, "B") /\ Contains(text, "E")

\* C6: a reply that holds both delimiters and whose delimited payload is no
\* valid JSON decodes to an explicit error, never to text and never to a call.
\* (The code decodes an empty or blank payload as text, or as a tag-form call.)
C6_BrokenPayloadIsError ==
    (cpc = "decoded" /\ HasBothDelimiters(content)
        /\ ~JsonLoads(Strip(Payload(content))).ok)
    => outcome.type = "error"

\* C7: the canonical form <FunctionCallBegin>{"name":N,"parameters":P}
\* <FunctionCallEnd> decodes to a call of N with arguments P, for every N and P.
\* (The code cuts the payload at a <FunctionCallEnd> inside a string of P.)
C7_CanonicalDecodes ==
    \A n \in CodecNames, p \in CodecParams :
        (cpc = "decoded" /\ content = Canonical(n, p))
        => outcome = ToolUse(n, Mapping(p))

\* The text normalize_messages makes (base.py lines 181-192) of an assistant
\* message that holds the call block (n, p).
Encoded(n, p) ==
    NormalizeOne(create_assistant_message(
                    <<ToolUseBlock(n, Mapping(p), <<>>)>>, 0))[1].content

\* C35: decoding the text that normalize_messages makes of the call block
\* (N, P) gives the call N with the arguments P, for every name and every
\* argument mapping, also when a string of P holds a delimiter.
C35_EncodeDecodeRoundTrip ==
    \A n \in CodecNames, p \in CodecParams :
        (cpc = "decoded" /\ content = Encoded(n, p))
        => /\ outcome.type = "tool_use"
           /\ outcome.name = n
           /\ outcome.input = Mapping(p)

\* What the code keeps: the round trip of every call none of whose strings
\* holds <FunctionCallEnd>.
RoundTripWithoutEndDelimiter ==
    \A n \in CodecNames, p \in CodecParams :
        (/\ cpc = "decoded" /\ content = Encoded(n, p)
         /\ \A i \in 1..Len(p) : p[i][2] # EndStr)
        => outcome = ToolUse(n, Mapping(p))

\* C21: the delimiter pair wins. A reply that holds both delimiters decodes
\* to what its payload gives (a call or a parse error), tool tag or not; the
\* tag form is used only in a reply without the pair; a reply with neither
\* form is text.
\* (With an empty or blank payload the code goes on to the tag form.)
C21_DelimitersTakePrecedence ==
    cpc = "decoded"
    => /\ HasBothDelimiters(content)
          => outcome = DecodeDelimited(Strip(Payload(content)))
       /\ (~HasBothDelimiters(content) /\ TagMatches(content) # {})
          => outcome = DecodeTag(content)
       /\ (~HasBothDelimiters(content) /\ TagMatches(content) = {})
          => outcome = TextReply(content)

\* What the code keeps of C21: a payload that is not blank decides, and
\* without the pair the tag form and then the text are as claimed.
NonBlankPayloadDecides ==
    cpc = "decoded"
    => /\ (HasBothDelimiters(content) /\ Strip(Payload(content)) # <<>>)
          => outcome = DecodeDelimited(Strip(Payload(content)))
       /\ (~HasBothDelimiters(content) /\ TagMatches(content) # {})
          => outcome = DecodeTag(content)
       /\ (~HasBothDelimiters(content) /\ TagMatches(content) = {})
          => outcome = TextReply(content)

\* C19: every outcome of decoding is a text, an error, or a call whose
\* parameters are a mapping.
\* (A JSON object whose "parameters" is a string, and a tool tag around a JSON
\* array, are returned as calls.)
C19_DecodedCallIsWellFormed ==
    cpc = "decoded"
    => /\ outcome.type \in {"text", "error", "tool_use"}
       /\ outcome.type = "tool_use" => (outcome.name # "" /\ outcome.input.mapping)

(***************************************************************************)
(* PROPERTIES OF THE STEP LOOP                                             *)
(***************************************************************************)
RunStarted ==
    pc \in {"loop", "invoke", "handle", "end"} \/ (pc = "done" /\ exit # "agent_not_found")

\* C1: in every state of a run, 0 <= steps_used <= max_steps.
C1_StepWithinBudget == 0 <= step /\ step <= max_steps

C1_Witness == pc = "handle" /\ step = max_steps /\ max_steps = MaxSteps

\* The terminal state of the design that an ending of query stands for.
TerminalState ==
    CASE exit = "text_return" -> "Completed"
      [] exit = "loop_exit" -> "StepLimitReached"
      [] exit \in {"error_return", "notfound_return", "invalid_return"} -> "Fatal"
      [] OTHER -> "none"

\* C2: every run of the step loop ends in one of Completed, StepLimitReached
\* and Fatal, after at most max_steps rounds.
\* (A call that mentions git, made when executed_tools is not empty, ends
\* query with an AttributeError instead.)
C2_RunEndsInTerminalState ==
    (pc = "done" /\ exit # "agent_not_found")
    => /\ TerminalState \in {"Completed", "StepLimitReached", "Fatal"}
       /\ Len(rounds) <= max_steps

\* Two argument values are the same mapping, whatever the order of the keys.
SameMapping(a, b) == a.mapping /\ b.mapping /\ Range(a.pairs) = Range(b.pairs)

ExecutionsOf(n, v) ==
    {k \in 1..Len(executions) :
        executions[k].name = n /\ SameMapping(executions[k].input, v)}

\* C3: when the model issues the same call (name and argument mapping, key
\* order ignored) again in a run, the call has been executed at most once and
\* the later round gives the redundant-call notice and goes on.
\* (The later round of a call that mentions git raises instead.)
C3_RepeatedCallIsSkipped ==
    \A i, j \in 1..Len(rounds) :
        (/\ i < j
         /\ rounds[i].type = "tool_use" /\ rounds[j].type = "tool_use"
         /\ rounds[i].name = rounds[j].name
         /\ SameMapping(rounds[i].input, rounds[j].input))
        => /\ rounds[j].kind = "skip"
           /\ Cardinality(ExecutionsOf(rounds[j].name, rounds[j].input)) <= 1

\* The part of C3 that the code keeps: no call the model issues is executed
\* for it twice.
ModelCallExecutedOnce ==
    \A k, l \in 1..Len(executions) :
        (/\ executions[k].by = "model" /\ executions[l].by = "model"
         /\ executions[k].name = executions[l].name
         /\ SameMapping(executions[k].input, executions[l].input))
        => k = l

\* C9: the capability set of a run is the catalog, restricted to the
\* read-only capabilities when safe_mode is on and to the persona's allow-list
\* when the persona has one; with safe_mode on and no allow-list, FileReadTool
\* is in the set and FileWriteTool is not.
AllowListed(n) ==
    LET cfg == get_agent_by_type(subagent_type) IN cfg.star \/ n \in Range(cfg.list)

ExpectedTools ==
    {n \in Range(get_tools) : (safe_mode => is_read_only(n)) /\ AllowListed(n)}

C9_RunToolsAreFiltered ==
    RunStarted
    => /\ Range(tools) = ExpectedTools
       /\ Len(tools) = Cardinality(ExpectedTools)
       /\ (safe_mode /\ subagent_type = "general-purpose")
            => ("FileReadTool" \in Range(tools) /\ "FileWriteTool" \notin Range(tools))

C9_Witness ==
    /\ pc = "loop" /\ safe_mode /\ subagent_type = "code-reviewer"
    /\ Range(tools) = {"GrepTool", "FileReadTool", "GlobTool", "ThinkTool"}

\* C10: normalizing is a function of the transcript alone and leaves the
\* transcript as it was: when the reply of a round is handled, the transcript
\* is the one line 585 was given, normalizing it again (later, after
\* call_kimi_model wrote to the normalized list) gives what line 585 computed,
\* and so does normalizing it with other timestamps.
Untimed(messages) == [i \in 1..Len(messages) |-> [messages[i] EXCEPT !.timestamp = 0]]

C10_NormalizeIsPure ==
    pc = "handle"
    => /\ current_messages = msgs_snapshot
       /\ normalize_messages(current_messages) = norm_snapshot
       /\ normalize_messages(Untimed(current_messages)) = norm_snapshot

C10_Witness ==
    /\ pc = "handle" /\ step >= 2
    /\ normalized_msgs # norm_snapshot
    /\ \E i \in 1..Len(current_messages) :
          current_messages[i].type = "assistant"
          /\ \E k \in 1..Len(current_messages[i].blocks) :
                current_messages[i].blocks[k].type = "tool_use"


\* C11: a call of the model is executed only after validate_input accepted
\* its arguments, whatever the capability list of the run.
\* (A FileReadTool call on a directory, in a run without BashTool, is
\* rejected and then executed at line 726.)
C11_ExecutedOnlyWhenAccepted ==
    \A k \in 1..Len(executions) :
        executions[k].by = "model" => executions[k].validated

\* The run is over: the result event was yielded, or TaskTool.call returned
\* at line 366, or the AttributeError left it.
RunEnded == pc = "end" \/ (pc = "done" /\ exit \in {"agent_not_found", "raised"})

ResultEvents == SelectSeq(events, LAMBDA e : e.type = "result")

\* C12: every run started through TaskTool.call ends with exactly one result
\* event, which carries one final text message and the statistics.
\* (A run that ends after a capability execution has a tool_use message last
\* and no text in its result; an unknown persona gets no statistics; the
\* AttributeError of lines 616-621 leaves no result event at all.)
C12_RunEndsWithOneResult ==
    /\ Len(ResultEvents) <= 1
    /\ RunEnded
       => /\ Len(ResultEvents) = 1
          /\ events[Len(events)].type = "result"
          /\ Len(ResultEvents[1].data) = 1
          /\ ResultEvents[1].statistics

LongText(text) == TextLen(Strip(text)) > FinalAnswerThreshold

\* C13: when the reply of a round is text longer than the threshold, the run
\* ends in that round as Completed, and the text is the final text of the
\* result event.
C13_LongTextCompletes ==
    \A i \in 1..Len(rounds) :
        (rounds[i].type = "text" /\ LongText(rounds[i].text))
        => /\ i = Len(rounds) /\ step = rounds[i].step
           /\ pc \in {"done", "end"}
           /\ exit = "text_return" /\ completed_analysis
           /\ TerminalState = "Completed"
           /\ pc = "end"
              => /\ events[Len(events)].type = "result"
                 /\ events[Len(events)].data = <<TextBlock(rounds[i].text)>>

C13_Witness ==
    /\ pc = "end" /\ step >= 2 /\ Len(rounds) = step
    /\ rounds[step].type = "text" /\ LongText(rounds[step].text)
    /\ events[Len(events)].data = <<TextBlock(rounds[step].text)>>

\* C14: when the reply of a round is text not longer than the threshold and
\* steps remain, the run goes on to a further round.
\* (query returns after every text reply, line 607.)
C14_ShortTextContinues ==
    \A i \in 1..Len(rounds) :
        (/\ rounds[i].type = "text" /\ ~LongText(rounds[i].text)
         /\ rounds[i].step < max_steps)
        => (i < Len(rounds) \/ pc \notin {"done", "end"})

\* The capability executions of round s.
ExecutionsIn(s) == {k \in 1..Len(executions) : executions[k].step = s}

\* C15: when call_kimi_model returns an error outcome, its text is surfaced
\* as a message and the run ends as Fatal in that round, with no capability
\* executed in the round and no further round.
C15_ErrorEndsRun ==
    \A i \in 1..Len(rounds) :
        rounds[i].type = "error"
        => /\ i = Len(rounds) /\ step = rounds[i].step
           /\ pc \in {"done", "end"}
           /\ exit = "error_return" /\ TerminalState = "Fatal"
           /\ ExecutionsIn(rounds[i].step) = {}
           /\ model_response.type = "error"
           /\ call_messages[Len(call_messages)].blocks
                = <<TextBlock(Note(model_response.err) \o model_response.text)>>
           /\ pc = "end" => events[Len(events)].data
                              = <<TextBlock(Note(model_response.err) \o model_response.text)>>

C15_Witness ==
    /\ pc = "end" /\ exit = "error_return" /\ step >= 2
    /\ model_response = ErrorReply("parse", <<Tok("bad")>>)
    /\ executions # <<>>

\* C16: when validate_input rejects the arguments of a call (the directory
\* case apart), the reason is surfaced and the run goes on to a further round
\* while steps remain.
\* (query returns at line 716.)
C16_RejectionEndsRoundOnly ==
    \A i \in 1..Len(rounds) :
        (rounds[i].kind = "invalid" /\ rounds[i].step < max_steps)
        => (i < Len(rounds) \/ pc \notin {"done", "end"})

\* C17: in every round at most one call is decoded and at most one capability
\* execution takes place.
\* (A call that mentions git, in a run whose task names the target directory,
\* is executed after the change-directory command the loop executes itself.)
C17_OneExecutionPerRound ==
    \A s \in 1..step : Cardinality(ExecutionsIn(s)) <= 1

\* The text occurs in an entry of the normalized list.
Occurs(text, entries) ==
    \E e \in 1..Len(entries) :
        \E k \in 1..Len(entries[e].content) :
            k + Len(text) - 1 <= Len(entries[e].content)
            /\ SubSeq(entries[e].content, k, k + Len(text) - 1) = text

\* C18: the result text of every capability execution of a round, whoever
\* asked for it, is in the normalized request of the next round.
\* (The results of the two shims are kept as the output of a tool_use block,
\* which normalize_messages does not render.)
C18_ResultsReachNextRequest ==
    \A k \in 1..Len(executions) :
        (pc \in {"invoke", "handle"} /\ step = executions[k].step + 1)
        => Occurs(ResultText(executions[k].name, executions[k].input), norm_snapshot)

\* The same for the executions the model asked for, which holds.
ModelResultsReachNextRequest ==
    \A k \in 1..Len(executions) :
        (pc \in {"invoke", "handle"} /\ step = executions[k].step + 1
         /\ executions[k].by = "model")
        => Occurs(ResultText(executions[k].name, executions[k].input), norm_snapshot)

\* C20: at every progress event of the step loop, the message of the event
\* is in the log already, and the log holds one line for every entry of the
\* transcript of the run, in the order of the transcript.
\* (The log is written from the list of TaskTool.call, which holds the
\* messages query yielded; the transcript query works on also holds the system
\* message and the capability results, which are never yielded.)
C20_LogHoldsTranscript ==
    \A i \in 1..Len(events) :
        (events[i].type = "progress" /\ events[i].in_loop)
        => /\ events[i].log # <<>>
           /\ events[i].log[Len(events[i].log)] = LogLine(events[i].content)
           /\ events[i].log = events[i].transcript

\* What the code keeps of C20: the message of every progress event of the
\* loop is the last line of the log when the event is yielded, and the log
\* is the list of TaskTool.call, line by line.
LogHoldsSurfacedMessages ==
    /\ \A i \in 1..Len(events) :
          (events[i].type = "progress" /\ events[i].in_loop)
          => /\ events[i].log # <<>>
             /\ events[i].log[Len(events[i].log)] = LogLine(events[i].content)
    /\ log # <<>> => log = overwrite_log(call_messages)

\* The assistant messages of a list that hold text.
AssistantTexts(messages) ==
    SelectSeq(messages,
              LAMBDA m : m.type = "assistant"
                         /\ \E k \in 1..Len(m.blocks) : m.blocks[k].type = "text")

\* The messages of the caller's list that the step loop surfaced: all but
\* the two notes and the prompt of lines 352-387.
LoopMessages == SubSeq(call_messages, 4, Len(call_messages))

\* C25: when a run ends because max_steps rounds were executed, the final
\* text of the result event is the most recent assistant text of the run, and
\* so is not empty when the run produced any assistant text.
C25_StepLimitKeepsLastText ==
    (pc = "end" /\ exit = "loop_exit")
    => LET texts == AssistantTexts(LoopMessages) IN
       texts # <<>>
       => /\ events[Len(events)].data # <<>>
          /\ events[Len(events)].data =
               SelectSeq(texts[Len(texts)].blocks, LAMBDA c : c.type = "text")

\* What the code keeps: the final text is the text of the last message.
StepLimitKeepsTextOfLastMessage ==
    (pc = "end" /\ exit = "loop_exit")
    => events[Len(events)].data = TextResults(call_messages)

IsPrefix(s, t) == Len(s) <= Len(t) /\ SubSeq(t, 1, Len(s)) = s

\* C26: once query has put the system message in front (line 575), every
\* step leaves the transcript as it was or appends to it: the transcript
\* before the step is a prefix of the one after it; and the transcript holds
\* one system message, its first.
C26_TranscriptAppendOnly ==
    [][/\ pc # "setup" => IsPrefix(current_messages, current_messages')
       /\ RunStarted'
          => /\ current_messages'[1].type = "system"
             /\ \A i \in 2..Len(current_messages') :
                   current_messages'[i].type # "system"]_vars

\* A third round is over: the transcript grew in every round, and
\* call_kimi_model wrote the manifest to its normalized list.
C26_Witness ==
    /\ pc = "loop" /\ step = 3
    /\ Len(msgs_snapshot) > 5
    /\ Len(current_messages) > Len(msgs_snapshot)
    /\ IsPrefix(msgs_snapshot, current_messages)
    /\ normalized_msgs # norm_snapshot

\* The invocations of call_kimi_model a run has made: one for every round
\* handled, and the one whose reply is being handled.
Invocations == Len(rounds) + (IF pc = "handle" THEN 1 ELSE 0)

\* C31: every round, whatever its branch, adds one to step: the i-th round
\* runs with step = i, and the invocations of call_kimi_model made by the run
\* are as many as step says (between line 582 and line 587 the invocation of
\* the round is still to be made).
C31_StepCountsInvocations ==
    /\ \A i \in 1..Len(rounds) : rounds[i].step = i
    /\ Len(rounds) <= step
    /\ Invocations = IF pc = "invoke" THEN step - 1 ELSE step

\* Three rounds of three branches: a call executed with a warning, the same
\* call skipped, the directory shim; the loop has ended with step = 3.
C31_Witness ==
    /\ pc = "end" /\ step = 3 /\ Len(rounds) = 3
    /\ rounds[1].kind = "executed"
    /\ ValidateInput(rounds[1].name, rounds[1].input).message # ""
    /\ rounds[2].kind = "skip"
    /\ rounds[3].kind = "shim"

\* Round i reached validate_input with a FileReadTool call on a directory.
NotAFileRound(i) ==
    /\ rounds[i].kind \in {"shim", "executed", "invalid"}
    /\ rounds[i].name = "FileReadTool"
    /\ ~ValidateInput(rounds[i].name, rounds[i].input).result
    /\ ValidateInput(rounds[i].name, rounds[i].input).message = "Not a file"

\* C32: when validate_input rejects a FileReadTool call because the path is
\* a directory, the round executes one directory listing of that path in its
\* place, does not execute the rejected call, and the loop goes on.
C32_DirectoryIsListedInstead ==
    \A i \in 1..Len(rounds) :
        NotAFileRound(i)
        => /\ rounds[i].kind = "shim"
           /\ \A k \in ExecutionsIn(i) : executions[k].by # "model"
           /\ Cardinality({k \in ExecutionsIn(i) : executions[k].by = "ls_shim"}) = 1
           /\ (i = Len(rounds) /\ pc = "done") => exit = "loop_exit"

\* What the code keeps: the same, in a run whose capability list holds
\* BashTool.
DirectoryIsListedWithBashTool ==
    \A i \in 1..Len(rounds) :
        (NotAFileRound(i) /\ BashPresent)
        => /\ rounds[i].kind = "shim"
           /\ \A k \in ExecutionsIn(i) : executions[k].by # "model"
           /\ Cardinality({k \in ExecutionsIn(i) : executions[k].by = "ls_shim"}) = 1
           /\ (i = Len(rounds) /\ pc = "done") => exit = "loop_exit"

\* The keys of line 655 of the calls whose execute was invoked.
ExecutedKeys ==
    {ToolKey(executions[k].name, executions[k].input) : k \in 1..Len(executions)}

\* C33: a call gets the redundant-call notice only when the same call was
\* executed in an earlier round, and executed_tools holds the keys of the
\* executed calls and no others: no key of a rejected call, of a call to an
\* unknown capability or of a call replaced by the directory listing. (The
\* key of line 652 stands for the cd the shim executed and is left aside.)
C33_KeysAreExecutedCalls ==
    /\ \A i \in 1..Len(rounds) :
          rounds[i].kind = "skip"
          => \E k \in 1..Len(executions) :
                /\ executions[k].step < rounds[i].step
                /\ ToolKey(executions[k].name, executions[k].input)
                     = ToolKey(rounds[i].name, rounds[i].input)
    /\ (executed_tools \ {CdKey}) \subseteq ExecutedKeys

\* What the code keeps: the key of every call executed for the model is in
\* executed_tools, and the notice is given only for a call issued before.
IssuedCallsAreKeyed ==
    /\ \A k \in 1..Len(executions) :
          executions[k].by = "model"
          => ToolKey(executions[k].name, executions[k].input) \in executed_tools
    /\ \A i \in 1..Len(rounds) :
          rounds[i].kind = "skip"
          => \E j \in 1..(i - 1) :
                /\ rounds[j].type = "tool_use"
                /\ ToolKey(rounds[j].name, rounds[j].input)
                     = ToolKey(rounds[i].name, rounds[i].input)

\* C34: every capability executed in a run with safe_mode on is read-only,
\* and every capability executed in a run whose persona has an allow-list is
\* on that list; the executions of the two shims are among them.
C34_ExecutionsAreAllowed ==
    \A k \in 1..Len(executions) :
        /\ safe_mode => is_read_only(executions[k].name)
        /\ AllowListed(executions[k].name)
        /\ executions[k].name \in Range(tools)

\* A run with safe_mode on and an allow-list has executed two calls, one of
\* them in the round of a FileReadTool call on a directory, where the shim
\* found no BashTool to list it with.
C34_Witness ==
    /\ safe_mode /\ subagent_type = "code-reviewer"
    /\ Len(executions) = 2
    /\ \E i \in 1..Len(rounds) : NotAFileRound(i) /\ ExecutionsIn(i) # {}

\* C36: no round that handles a decoded call ends query with an exception:
\* the round goes on to the next one (executed, skipped, replaced by the
\* listing) or ends the run with a message (unknown capability, rejected
\* arguments), also for a call that mentions git made when executed_tools
\* is not empty.
C36_NoUnhandledFault ==
    /\ exit # "raised"
    /\ \A i \in 1..Len(rounds) :
          rounds[i].type = "tool_use"
          => rounds[i].kind \in {"executed", "skip", "shim", "notfound", "invalid"}

\* What the code keeps: a round raises only for a call that mentions git,
\* and only in a round after one that added a key to executed_tools.
FaultOnlyForGitAfterACall ==
    \A i \in 1..Len(rounds) :
        rounds[i].kind = "fault"
        => /\ MentionsGit(rounds[i].name, rounds[i].input)
           /\ i > 1
           /\ \E j \in 1..(i - 1) : rounds[j].type = "tool_use"

\* C37: the steps_executed statistic of the result event is the number of
\* rounds the step loop executed in the run.
C37_StepsExecutedCountsRounds ==
    (pc = "end" /\ events[Len(events)].statistics)
    => /\ events[Len(events)].steps_executed = Len(rounds)
       /\ events[Len(events)].steps_executed = step

\* What the code keeps: the statistic is half the number of messages of the
\* caller's list, and not more than max_steps.
StepsExecutedIsHalfTheMessages ==
    (pc = "end" /\ events[Len(events)].statistics)
    => /\ events[Len(events)].steps_executed <= max_steps
       /\ events[Len(events)].steps_executed
            = Min(Len(call_messages) \div 2, max_steps)

\* C38: the tool_uses statistic of the result event is the number of
\* capability executions of the run: a skipped call is not counted, an
\* executed call is counted once.
C38_ToolUsesCountsExecutions ==
    (pc = "end" /\ events[Len(events)].statistics)
    => events[Len(events)].tool_uses = Len(executions)

\* What the code keeps: the statistic is the number of tool_use blocks in the
\* messages surfaced, the reply of every round that decoded a call and the
\* message with the output of every execution.
ToolUsesCountsBlocks ==
    (pc = "end" /\ events[Len(events)].statistics)
    => /\ events[Len(events)].tool_uses = CountToolUses(call_messages)
       /\ events[Len(events)].tool_uses
            = Len(SelectSeq(rounds, LAMBDA r : r.type = "tool_use")) + Len(executions)

(***************************************************************************)
(* RATE LIMITER AND RETRYING INVOKER.  Times are tenths of a second.       *)
(* The runs are asyncio tasks of one event loop: a step of a run goes from *)
(* one await that suspends to the next. client.chat.completions.create is  *)
(* a blocking call, so a network attempt is part of the step that makes it.*)
(***************************************************************************)
Window == 600               \* 60 s
Margin == 1                 \* 0.1 s
RpmLimit == 3
MaxRetries == 5
InitialRetryDelay == 50     \* 5.0 s
MaxRetryDelay == 100        \* 10.0 s
RequestTimeout == 300       \* 30 s
RetryAfterSeconds == 120    \* "try again after 12 seconds"
RetryAfterExtra == 5        \* 0.5 s

MaxCalls == 4
MaxFails == 5
SharedCalls == 2
SharedFails == 1

RECURSIVE Pow2(_)
Pow2(n) == IF n = 0 THEN 1 ELSE 2 * Pow2(n - 1)

\* clean_old_timestamps at time t
clean_old_timestamps(ts, t) == SelectSeq(ts, LAMBDA x : t - x < Window)

\* A wait that ends before the oldest entry is 60 seconds old.
SlotWaitTimeShort(ts, t) == Window - (t - ts[1]) - Margin
\* Line 100: wait_time, with the window ts at time t.
SlotWaitTime(ts, t) == Window - (t - ts[1]) + Margin

\* A capacity check that lets one send too many through.
WindowFullOff(ts) == Len(ts) > RpmLimit
\* Line 98, the capacity check of wait_for_rate_limit.
WindowFull(ts) == Len(ts) >= RpmLimit

\* A send that is recorded twice.
record_request_timestamp_twice(ts, t) ==
    clean_old_timestamps(Append(Append(ts, t), t), t)
\* record_request_timestamp at time t (base.py lines 111-113): the present
\* time is appended, then the window is cleaned.
record_request_timestamp(ts, t) == clean_old_timestamps(Append(ts, t), t)

\* Lines 848-849 and 874-875.
Backoff(rc) == Min(InitialRetryDelay * Pow2(rc - 1), MaxRetryDelay)

\* A retry count that stays at 1.
NextRetryCountOff(rc) == IF rc = 0 THEN 1 ELSE rc
\* Lines 847 and 873: retry_count += 1
NextRetryCount(rc) == rc + 1

\* Lines 862 and 880.
RetriesExhausted(rc) == rc >= MaxRetries

\* Line 761, the condition of the retry loop.
RetryLoopGuard(rc) == rc < MaxRetries

\* What the service does with a request: the kind of answer and how long the
\* blocking call takes.
ServiceAnswers ==
    {[kind |-> "ok", took |-> 0],
     [kind |-> "ok", took |-> RequestTimeout],
     [kind |-> "rate_limited", took |-> 0],
     [kind |-> "rate_limited_after", took |-> 0],
     [kind |-> "api_error", took |-> 0],
     [kind |-> "other", took |-> 0]}

IsRateLimited(kind) == kind \in {"rate_limited", "rate_limited_after"}
IsRetryable(kind) == IsRateLimited(kind) \/ kind = "api_error"

\* A wait that max_retry_delay caps whatever the error says.
RetryWaitCapped(kind, rc) ==
    Min(IF kind = "rate_limited_after" THEN RetryAfterSeconds + RetryAfterExtra
        ELSE Backoff(rc), MaxRetryDelay)
\* Lines 848-857 and 874-875: the wait after the rc-th failure.
RetryWait(kind, rc) ==
    IF kind = "rate_limited_after" THEN RetryAfterSeconds + RetryAfterExtra
    ELSE Backoff(rc)

RateFrame == UNCHANGED <<codecVars, loopVars, cancelVars, shellVars>>

\* The attempts of the history that a window ending at time t or later can
\* still hold.
Recent(as, t) == SelectSeq(as, LAMBDA a : t - a.at < Window)

\* Lines 765-904 from the request on: run r, holding the cleaned window ts
\* and retry count rc, sends one request at time now (ca and orl are the
\* history of the invocation so far).
Attempt(r, ts, rc, ca, orl) ==
    \E a \in ServiceAnswers :
        /\ a.kind # "ok" => fails_left > 0
        /\ fails_left' = IF a.kind = "ok" THEN fails_left ELSE fails_left - 1
        /\ attempts' = Recent(Append(attempts, [at |-> now, ok |-> a.kind = "ok"]), now)
        /\ call_attempts' = [call_attempts EXCEPT ![r] = ca + 1]
        /\ sent' = [sent EXCEPT ![r] = @ + 1]
        /\ only_rate_limited' =
             [only_rate_limited EXCEPT ![r] = orl /\ IsRateLimited(a.kind)]
        /\ now' = now + a.took
        /\ IF a.kind = "ok"
           THEN \* line 772: record_request_timestamp, then the reply is decoded
                /\ request_timestamps' = record_request_timestamp(ts, now + a.took)
                /\ tpc' = [tpc EXCEPT ![r] = "idle"]
                /\ result' = [result EXCEPT ![r] = "success"]
                /\ retry_count' = [retry_count EXCEPT ![r] = rc]
                /\ UNCHANGED <<wake, last_error>>
           ELSE IF IsRetryable(a.kind)
           THEN \* lines 846-860 and 872-878: count, wait
                /\ request_timestamps' = ts
                /\ retry_count' = [retry_count EXCEPT ![r] = NextRetryCount(rc)]
                /\ last_error' = [last_error EXCEPT ![r] = a.kind]
                /\ wake' = [wake EXCEPT ![r] =
                     now + a.took + RetryWait(a.kind, NextRetryCount(rc))]
                /\ tpc' = [tpc EXCEPT ![r] = "backoff"]
                /\ UNCHANGED result
           ELSE \* line 890: any other exception
                /\ request_timestamps' = ts
                /\ tpc' = [tpc EXCEPT ![r] = "idle"]
                /\ result' = [result EXCEPT ![r] = "failed"]
                /\ retry_count' = [retry_count EXCEPT ![r] = rc]
                /\ UNCHANGED <<wake, last_error>>

\* wait_for_rate_limit from line 95 or 105 on, then the request: the window is
\* cleaned at time now; when it is full the run sleeps, or else it sends.
SlotThenAttempt(r, rc, ca, orl) ==
    LET ts == clean_old_timestamps(request_timestamps, now) IN
    IF WindowFull(ts)
    THEN LET wait_time == SlotWaitTime(ts, now) IN
         /\ request_timestamps' = ts
         /\ tpc' = [tpc EXCEPT ![r] = "slot_wait"]
         /\ wake' = [wake EXCEPT ![r] = IF wait_time > 0 THEN now + wait_time ELSE now]
         /\ retry_count' = [retry_count EXCEPT ![r] = rc]
         /\ call_attempts' = [call_attempts EXCEPT ![r] = ca]
         /\ only_rate_limited' = [only_rate_limited EXCEPT ![r] = orl]
         /\ UNCHANGED <<now, last_error, result, fails_left, attempts, sent>>
    ELSE Attempt(r, ts, rc, ca, orl)

\* call_kimi_model is entered: lines 750-763, up to the first await that
\* suspends or to its return.
StartCall(r) ==
    /\ tpc[r] = "idle"
    /\ calls[r] < call_budget
    /\ calls' = [calls EXCEPT ![r] = @ + 1]
    /\ SlotThenAttempt(r, 0, 0, TRUE)
    /\ UNCHANGED call_budget
    /\ RateFrame

\* Line 104: the sleep of wait_for_rate_limit ends; the window is checked
\* again (lines 105-106 and 98).
WakeSlot(r) ==
    /\ tpc[r] = "slot_wait"
    /\ now >= wake[r]
    /\ SlotThenAttempt(r, retry_count[r], call_attempts[r], only_rate_limited[r])
    /\ UNCHANGED <<calls, call_budget>>
    /\ RateFrame

\* Lines 860-870 and 878-888: the sleep after a failure ends; the invocation
\* gives up when the retries are used up, or goes round the loop of line 761.
WakeBackoff(r) ==
    /\ tpc[r] = "backoff"
    /\ now >= wake[r]
    /\ IF RetriesExhausted(retry_count[r])
       THEN /\ tpc' = [tpc EXCEPT ![r] = "idle"]
            /\ result' = [result EXCEPT ![r] =
                 IF IsRateLimited(last_error[r]) THEN "exhausted_rate_limited"
                 ELSE "exhausted_api_error"]
            /\ UNCHANGED <<now, request_timestamps, wake, retry_count, last_error,
                           fails_left, attempts, sent, call_attempts, only_rate_limited>>
       ELSE IF RetryLoopGuard(retry_count[r])
       THEN SlotThenAttempt(r, retry_count[r], call_attempts[r], only_rate_limited[r])
       ELSE \* lines 897-904
            /\ tpc' = [tpc EXCEPT ![r] = "idle"]
            /\ result' = [result EXCEPT ![r] = "exhausted"]
            /\ UNCHANGED <<now, request_timestamps, wake, retry_count, last_error,
                           fails_left, attempts, sent, call_attempts, only_rate_limited>>
    /\ UNCHANGED <<calls, call_budget>>
    /\ RateFrame

Sleeping(r) == tpc[r] \in {"slot_wait", "backoff"}

\* Time passes until the next sleep ends, when no sleep has ended yet.
PassTime ==
    /\ \E r \in Runs : Sleeping(r)
    /\ \A r \in Runs : Sleeping(r) => wake[r] > now
    /\ now' = CHOOSE t \in {wake[r] : r \in {q \in Runs : Sleeping(q)}} :
                 \A r \in Runs : Sleeping(r) => t <= wake[r]
    /\ UNCHANGED <<request_timestamps, tpc, wake, retry_count, last_error, result,
                   calls, call_budget, fails_left, attempts, sent, call_attempts, only_rate_limited>>
    /\ RateFrame

RateNext ==
    \/ \E r \in Runs : StartCall(r)
    \/ \E r \in Runs : WakeSlot(r)
    \/ \E r \in Runs : WakeBackoff(r)
    \/ PassTime

\* One run makes its invocations one after the other.
InvokerInit ==
    /\ CodecOff
    /\ LoopOff
    /\ CancelOff
    /\ ShellOff
    /\ now = 0
    /\ request_timestamps = <<>>
    /\ tpc = [r \in Runs |-> IF r = "r1" THEN "idle" ELSE "off"]
    /\ wake = [r \in Runs |-> 0]
    /\ retry_count = [r \in Runs |-> 0]
    /\ last_error = [r \in Runs |-> ""]
    /\ result = [r \in Runs |-> ""]
    /\ calls = [r \in Runs |-> 0]
    /\ call_budget = MaxCalls
    /\ fails_left = MaxFails
    /\ attempts = <<>>
    /\ sent = [r \in Runs |-> 0]
    /\ call_attempts = [r \in Runs |-> 0]
    /\ only_rate_limited = [r \in Runs |-> TRUE]

SpecInvoker == InvokerInit /\ [][RateNext]_vars

\* The number of attempts made in the 60 seconds that end with attempt i
\* (counting attempt i).
AttemptsInWindow(i) ==
    Cardinality({j \in 1..i : attempts[i].at - attempts[j].at < Window})

\* The same count, of the attempts that succeeded.
RecordedInWindow(i) ==
    Cardinality({j \in 1..i : attempts[j].ok
                              /\ attempts[i].at - attempts[j].at < Window})

\* C4: counting each network attempt as a send, no 60-second window holds
\* more than rpm_limit sends.
\* (The code records only the attempts that succeed, so retries after failed
\* attempts are not held back.)
C4_AttemptsWithinCapacity ==
    \A i \in 1..Len(attempts) : AttemptsInWindow(i) <= RpmLimit

\* The results of call_kimi_model that cite retry exhaustion.
ExhaustionResults == {"exhausted_rate_limited", "exhausted_api_error", "exhausted"}

\* C8: when every attempt of an invocation is rate-limited, the invoker makes
\* exactly max_retries attempts and returns the retry-exhaustion failure; no
\* invocation ever makes more than max_retries attempts.
C8_RateLimitedGivesUp ==
    \A r \in Runs :
        /\ call_attempts[r] <= MaxRetries
        /\ (tpc[r] = "idle" /\ calls[r] > 0 /\ only_rate_limited[r])
             => (call_attempts[r] = MaxRetries /\ result[r] \in ExhaustionResults)

C8_Witness ==
    \E r \in Runs : tpc[r] = "idle" /\ only_rate_limited[r]
                    /\ call_attempts[r] = MaxRetries
                    /\ result[r] = "exhausted_rate_limited"

\* Two runs share the limiter.
SharedInit ==
    /\ CodecOff
    /\ LoopOff
    /\ CancelOff
    /\ ShellOff
    /\ now = 0
    /\ request_timestamps = <<>>
    /\ tpc = [r \in Runs |-> "idle"]
    /\ wake = [r \in Runs |-> 0]
    /\ retry_count = [r \in Runs |-> 0]
    /\ last_error = [r \in Runs |-> ""]
    /\ result = [r \in Runs |-> ""]
    /\ calls = [r \in Runs |-> 0]
    /\ call_budget = SharedCalls
    /\ fails_left = SharedFails
    /\ attempts = <<>>
    /\ sent = [r \in Runs |-> 0]
    /\ call_attempts = [r \in Runs |-> 0]
    /\ only_rate_limited = [r \in Runs |-> TRUE]

SpecShared == SharedInit /\ [][RateNext]_vars

\* What check-then-append gives the runs that share the window: under every
\* interleaving, the sends that record_request_timestamp appends (the
\* completed sends) of all runs never number more than rpm_limit within 60
\* seconds, and the window never holds more.
RecordedSendsWithinCapacity ==
    /\ \A i \in 1..Len(attempts) : RecordedInWindow(i) <= RpmLimit
    /\ Len(request_timestamps) <= RpmLimit

\* C5: with runs that share the window, under every interleaving at
\* suspension points, the capacity check and the append of the send are one
\* step, so the sends of all runs within 60 seconds never number more than
\* rpm_limit.
\* (A send that fails is never appended, so the runs together send more.)
C5_SharedSendsWithinCapacity ==
    /\ Len(request_timestamps) <= RpmLimit
    /\ \A i \in 1..Len(attempts) : AttemptsInWindow(i) <= RpmLimit

\* C22: every network attempt, a failed one as much as a successful one, is
\* followed by record_send: at every moment the rate window, cleaned at the
\* present time, holds a timestamp for each attempt of the last 60 seconds, so
\* the next capacity check counts them all.
C22_EveryAttemptIsRecorded ==
    Len(Recent(attempts, now)) <= Len(clean_old_timestamps(request_timestamps, now))

\* What the code does keep: the successful attempts of the last 60 seconds
\* are all in the window.
SuccessfulAttemptsAreRecorded ==
    Len(SelectSeq(Recent(attempts, now), LAMBDA a : a.ok))
        <= Len(clean_old_timestamps(request_timestamps, now))

\* The step in which an invocation of run r returns a decoded reply.
InvocationSucceeds(r) ==
    /\ result'[r] = "success"
    /\ tpc'[r] = "idle"
    /\ tpc[r] # "idle" \/ calls'[r] # calls[r]

\* C23: the step that ends an invocation in success appends exactly one
\* timestamp, the time of the reply, to the rate window; every other step
\* of an invocation (a failed attempt, a wait, giving up) appends none: it
\* leaves the window as it is or only drops the entries of 60 seconds or more.
C23_SuccessAppendsOnce ==
    [][IF \E r \in Runs : InvocationSucceeds(r)
       THEN request_timestamps' =
              Append(clean_old_timestamps(request_timestamps, now'), now')
       ELSE \/ request_timestamps' = request_timestamps
            \/ request_timestamps' = clean_old_timestamps(request_timestamps, now)]_vars

\* An invocation that failed twice and then succeeded has left one timestamp.
C23_Witness ==
    \E r \in Runs :
        /\ tpc[r] = "idle"
        /\ result[r] = "success"
        /\ calls[r] = 1
        /\ call_attempts[r] = 3
        /\ request_timestamps = <<now>>

\* C24: while the invoker waits after the n-th failed attempt of an
\* invocation, the wait that began when the attempt failed lasts
\* min(initial_delay * 2^(n-1), max_delay), that is 5 s and then 10 s, or
\* the retry-after duration of the error plus half a second when the error
\* names one, also when that is more than max_delay.
C24_BackoffWait ==
    \A r \in Runs :
        tpc[r] = "backoff"
        => LET n == retry_count[r]
               failed_at == attempts[Len(attempts)].at
           IN /\ n >= 1
              /\ n = call_attempts[r]
              /\ wake[r] - failed_at =
                   IF last_error[r] = "rate_limited_after"
                   THEN RetryAfterSeconds + RetryAfterExtra
                   ELSE IF InitialRetryDelay * 2^(n - 1) < MaxRetryDelay
                        THEN InitialRetryDelay * 2^(n - 1)
                        ELSE MaxRetryDelay

\* The third attempt failed with a retry-after duration above max_delay, after
\* waits of 5 s and 10 s.
C24_Witness ==
    \E r \in Runs :
        /\ tpc[r] = "backoff"
        /\ retry_count[r] = 3
        /\ last_error[r] = "rate_limited_after"
        /\ wake[r] - now > MaxRetryDelay
        /\ now = InitialRetryDelay + MaxRetryDelay

(***************************************************************************)
(* THE SHELL CAPABILITY (BashTool.execute, code_tools.py lines 330-378).   *)
(* Times are seconds. A run executes its shell commands one after the      *)
(* other; a process started by one of them runs until the command is done. *)
(***************************************************************************)
DefaultTimeout == 10
MaxCommands == 3

\* How long a command runs, and the timeouts a call may give.
CommandDurations == {1, 5, 30}
GivenTimeouts == {2, 5}

ShellFrame == UNCHANGED <<codecVars, loopVars, rateVars, cancelVars>>

Running == {i \in 1..Len(processes) : processes[i].running}

\* The process of the execution under way.
Current == Len(processes)

\* Lines 333-348: the timeout is read, the shell process is created; then
\* line 350 awaits communicate() for at most the timeout.
ShellExecute ==
    /\ shell_pc = "idle"
    /\ Len(shell_results) < MaxCommands
    /\ \E d \in CommandDurations, t \in GivenTimeouts \cup {DefaultTimeout} :
          processes' = Append(processes,
                              [started |-> shell_now, ends |-> shell_now + d,
                               timeout |-> t, running |-> TRUE])
    /\ shell_pc' = "communicate"
    /\ UNCHANGED <<shell_now, shell_results>>
    /\ ShellFrame

\* Lines 377-378: create_subprocess_shell raises, the text of the error is
\* the result.
ShellSpawnFails ==
    /\ shell_pc = "idle"
    /\ Len(shell_results) < MaxCommands
    /\ shell_results' = Append(shell_results,
                               [kind |-> "error", proc |-> 0, at |-> shell_now])
    /\ UNCHANGED <<shell_pc, shell_now, processes>>
    /\ ShellFrame

\* A process comes to its end: time has passed until then, and nothing else
\* was due before.
ProcessExits(i) ==
    /\ shell_pc # "off"
    /\ i \in Running
    /\ \A j \in Running : processes[i].ends <= processes[j].ends
    /\ shell_pc = "communicate"
       => processes[i].ends <= processes[Current].started + processes[Current].timeout
    /\ shell_now' = processes[i].ends
    /\ processes' = [processes EXCEPT ![i].running = FALSE]
    /\ UNCHANGED <<shell_pc, shell_results>>
    /\ ShellFrame

\* Lines 350-374: communicate() returns within the timeout, the output and
\* the exit code are the result.
ShellCompleted ==
    /\ shell_pc = "communicate"
    /\ Current \notin Running
    /\ shell_results' = Append(shell_results,
                               [kind |-> "completed", proc |-> Current, at |-> shell_now])
    /\ shell_pc' = "idle"
    /\ UNCHANGED <<shell_now, processes>>
    /\ ShellFrame

\* Lines 350-353 and 375-376: the timeout passes first; wait_for cancels
\* communicate() and raises TimeoutError, the text "Command timed out" is the
\* result. Nothing is done to the process.
ShellTimeout ==
    /\ shell_pc = "communicate"
    /\ Current \in Running
    /\ LET deadline == processes[Current].started + processes[Current].timeout IN
       /\ \A j \in Running : deadline <= processes[j].ends
       /\ shell_now' = deadline
       /\ shell_results' = Append(shell_results,
                                  [kind |-> "timeout", proc |-> Current, at |-> deadline])
    /\ shell_pc' = "idle"
    /\ UNCHANGED processes
    /\ ShellFrame

ShellNext ==
    \/ ShellExecute
    \/ ShellSpawnFails
    \/ \E i \in 1..MaxCommands : ProcessExits(i)
    \/ ShellCompleted
    \/ ShellTimeout

ShellInit ==
    /\ CodecOff
    /\ LoopOff
    /\ RateOff
    /\ CancelOff
    /\ shell_pc = "idle"
    /\ shell_now = 0
    /\ processes = <<>>
    /\ shell_results = <<>>

SpecShell == ShellInit /\ [][ShellNext]_vars

\* C27: once the timeout result of a shell execution has been reported, no
\* process started by that execution is still running.
C27_TimedOutProcessIsGone ==
    \A k \in 1..Len(shell_results) :
        shell_results[k].kind = "timeout"
        => ~processes[shell_results[k].proc].running

\* What the code keeps: a command that runs longer than its timeout is
\* reported as timed out when the timeout has passed, and the execution
\* returns to the loop.
TimeoutIsReported ==
    /\ \A k \in 1..Len(shell_results) :
          shell_results[k].kind = "timeout"
          => LET p == processes[shell_results[k].proc] IN
             /\ p.ends >= p.started + p.timeout
             /\ shell_results[k].at = p.started + p.timeout
    /\ \A i \in 1..Len(processes) :
          (shell_pc = "idle" \/ i < Current)
          => \E k \in 1..Len(shell_results) : shell_results[k].proc = i

(***************************************************************************)
(* CANCELLATION OF A RUN. The run is an asyncio task: task.cancel() makes  *)
(* CancelledError be raised in it at the await where it is suspended, or   *)
(* at its next one. asyncio.sleep (base.py line 104, task_tools.py lines   *)
(* 860 and 878) suspends the task; client.chat.completions.create (line    *)
(* 765) is a blocking call of the synchronous client and does not.         *)
(***************************************************************************)
CancelFails == 1

\* The cancellation is requested while run r sleeps in wait_for_rate_limit
\* or after a failed attempt; CancelledError is raised in the sleep, no
\* handler of call_kimi_model or query catches it.
CancelSleeping(r) ==
    /\ tpc[r] \in {"slot_wait", "backoff"}
    /\ cancel_at[r] = -1
    /\ \E c \in {now, wake[r] - 1} :
          /\ c >= now
          /\ now' = c
          /\ cancel_at' = [cancel_at EXCEPT ![r] = c]
          /\ abandoned_at' = [abandoned_at EXCEPT ![r] = c]
    /\ cancelled_in' = [cancelled_in EXCEPT ![r] = tpc[r]]
    /\ tpc' = [tpc EXCEPT ![r] = "cancelled"]
    /\ UNCHANGED <<request_timestamps, wake, retry_count, last_error, result,
                   calls, call_budget, fails_left, attempts, sent, call_attempts,
                   only_rate_limited>>
    /\ UNCHANGED <<codecVars, loopVars, shellVars>>

\* The cancellation was requested while the request of run r was with the
\* service (the call of line 765 took RequestTimeout and has just
\* returned): the task was not suspended, so CancelledError is raised only
\* at an await after the return, not before now.
CancelInFlight(r) ==
    /\ tpc[r] = "idle" /\ result[r] = "success"
    /\ cancel_at[r] = -1
    /\ attempts # <<>>
    /\ now - attempts[Len(attempts)].at = RequestTimeout
    /\ \E c \in {attempts[Len(attempts)].at, now - 1} :
          cancel_at' = [cancel_at EXCEPT ![r] = c]
    /\ abandoned_at' = [abandoned_at EXCEPT ![r] = now]
    /\ cancelled_in' = [cancelled_in EXCEPT ![r] = "response_wait"]
    /\ tpc' = [tpc EXCEPT ![r] = "cancelled"]
    /\ UNCHANGED <<now, request_timestamps, wake, retry_count, last_error, result,
                   calls, call_budget, fails_left, attempts, sent, call_attempts,
                   only_rate_limited>>
    /\ UNCHANGED <<codecVars, loopVars, shellVars>>

CancelNext ==
    \/ RateNext
    \/ \E r \in Runs : CancelSleeping(r)
    \/ \E r \in Runs : CancelInFlight(r)

\* One run makes its invocations one after the other, until it is cancelled.
CancelInit ==
    /\ CodecOff
    /\ LoopOff
    /\ CancelOff
    /\ ShellOff
    /\ now = 0
    /\ request_timestamps = <<>>
    /\ tpc = [r \in Runs |-> IF r = "r1" THEN "idle" ELSE "off"]
    /\ wake = [r \in Runs |-> 0]
    /\ retry_count = [r \in Runs |-> 0]
    /\ last_error = [r \in Runs |-> ""]
    /\ result = [r \in Runs |-> ""]
    /\ calls = [r \in Runs |-> 0]
    /\ call_budget = MaxCalls
    /\ fails_left = CancelFails
    /\ attempts = <<>>
    /\ sent = [r \in Runs |-> 0]
    /\ call_attempts = [r \in Runs |-> 0]
    /\ only_rate_limited = [r \in Runs |-> TRUE]

SpecCancel == CancelInit /\ [][CancelNext]_vars

\* C28: a cancellation requested while a run waits for a slot, waits after a
\* failed attempt or waits for the reply of the service takes effect at
\* once: the run is abandoned at the time of the request, without the
\* request in flight being waited for.
C28_CancelTakesEffectAtOnce ==
    \A r \in Runs :
        cancel_at[r] >= 0
        => /\ tpc[r] = "cancelled"
           /\ abandoned_at[r] = cancel_at[r]

\* What the code keeps: in the two sleeps the cancellation takes effect at
\* once, and a cancelled run makes no further attempt.
CancelInSleepTakesEffectAtOnce ==
    \A r \in Runs :
        /\ cancelled_in[r] \in {"slot_wait", "backoff"}
           => tpc[r] = "cancelled" /\ abandoned_at[r] = cancel_at[r]
        /\ cancel_at[r] >= 0
           => /\ tpc[r] = "cancelled"
              /\ \A i \in 1..Len(attempts) : attempts[i].at <= abandoned_at[r]

\* C29: the rate window never holds more than rpm_limit timestamps, and in
\* every step in which a request is sent the window, cleaned at the time of
\* the send, holds fewer than rpm_limit timestamps.
C29_WindowWithinCapacity ==
    [][/\ Len(request_timestamps') <= RpmLimit
       /\ attempts' # attempts
          => Len(clean_old_timestamps(request_timestamps, now)) < RpmLimit]_vars

\* Two runs have filled the window; one of them has waited for the oldest
\* entry to leave it and has then sent its request.
C29_Witness ==
    /\ now > Window
    /\ request_timestamps # <<>>
    /\ request_timestamps[Len(request_timestamps)] = now
    /\ attempts[Len(attempts)].at > Window
    /\ \E r \in Runs : tpc[r] = "idle" /\ result[r] = "success"
    /\ \E r \in Runs : tpc[r] = "slot_wait"

\* The event loop runs a task whose sleep is over, and time passes.
SharedFairness ==
    /\ WF_vars(PassTime)
    /\ \A r \in Runs : WF_vars(WakeSlot(r)) /\ WF_vars(WakeBackoff(r))

SpecSharedFair == SharedInit /\ [][RateNext]_vars /\ SharedFairness

SlotWaitOutlastsOldest ==
    \A r \in Runs :
        (tpc[r] = "slot_wait" /\ request_timestamps # <<>> /\ wake[r] > now)
        => wake[r] >= request_timestamps[1] + Window

RunSteps == 2
RunFails == MaxRetries

\* What earlier runs of the process left in API_CONFIG["request_timestamps"]:
\* two requests, sent just before this run starts.
EarlierWindow == <<0, 0>>

RunInit ==
    /\ CodecOff
    /\ CancelOff
    /\ ShellOff
    /\ now = 0
    /\ request_timestamps = EarlierWindow
    /\ tpc = [r \in Runs |-> IF r = "r1" THEN "idle" ELSE "off"]
    /\ wake = [r \in Runs |-> 0]
    /\ retry_count = [r \in Runs |-> 0]
    /\ last_error = [r \in Runs |-> ""]
    /\ result = [r \in Runs |-> ""]
    /\ calls = [r \in Runs |-> 0]
    /\ call_budget = RunSteps
    /\ fails_left = RunFails
    /\ attempts = <<>>
    /\ sent = [r \in Runs |-> 0]
    /\ call_attempts = [r \in Runs |-> 0]
    /\ only_rate_limited = [r \in Runs |-> TRUE]
    /\ pc = "setup"
    /\ subagent_type = "general-purpose"
    /\ safe_mode = FALSE
    /\ max_steps \in 1..RunSteps
    /\ has_target \in BOOLEAN
    /\ tools = <<>>
    /\ step = 0
    /\ completed_analysis = FALSE
    /\ current_messages = <<>>
    /\ executed_tools = {}
    /\ normalized_msgs = <<>>
    /\ model_response = NoOutcome
    /\ exit = ""
    /\ clk = 0
    /\ executions = <<>>
    /\ rounds = <<>>
    /\ norm_snapshot = <<>>
    /\ msgs_snapshot = <<>>
    /\ call_messages = <<>>
    /\ log = <<>>
    /\ events = <<>>

\* Line 587: the round of step `step` enters call_kimi_model.
RunStartCall ==
    /\ pc = "invoke"
    /\ calls["r1"] = step - 1
    /\ StartCall("r1")

\* Line 587: call_kimi_model returns to the round that entered it, with the
\* decoded reply of a request that succeeded or with a failure.
RunInvoke ==
    /\ tpc["r1"] = "idle"
    /\ calls["r1"] = step
    /\ Invoke
    /\ IF result["r1"] = "success"
       THEN \E reply \in LoopReplies : model_response' = Decode(reply)
       ELSE model_response' \in InvokerFailures

RunNext ==
    \/ Setup
    \/ BeginRound
    \/ LoopExit
    \/ RunStartCall
    \/ WakeSlot("r1")
    \/ WakeBackoff("r1")
    \/ PassTime
    \/ RunInvoke
    \/ HandleError
    \/ HandleText
    \/ HandleGitFault
    \/ HandleRedundant
    \/ HandleNotFound
    \/ HandleRejected
    \/ HandleDirShim
    \/ HandleExecute
    \/ EmitResult

SpecRun == RunInit /\ [][RunNext]_vars

\* C39: a run sends at most max_steps * max_retries requests to the
\* completion service and performs at most two capability executions per
\* step of its budget (the change-directory shim, then the call of the model
\* or the directory-listing shim), whatever the service answers.
C39_AttemptsAndExecutionsBounded ==
    /\ sent["r1"] <= max_steps * MaxRetries
    /\ Len(executions) <= 2 * max_steps

\* A run of one step whose only invocation took max_retries requests and
\* whose only round executed two capabilities.
C39_Witness ==
    /\ pc = "end"
    /\ max_steps = 1
    /\ sent["r1"] = MaxRetries
    /\ Len(executions) = 2

\* Why: every invocation sends at most max_retries requests, a run makes one
\* invocation per step, and a round executes at most twice.
RequestsPerInvocationBounded ==
    /\ call_attempts["r1"] <= MaxRetries
    /\ calls["r1"] <= step
    /\ sent["r1"] <= calls["r1"] * MaxRetries
    /\ \A s \in 1..MaxSteps : Cardinality(ExecutionsIn(s)) <= 2
    /\ Len(executions) <= step + 1

=============================================================================
